---------------------------- MODULE Spec2Model ----------------------------
(***************************************************************************)
(* A model of the Toka analysis tools: the control-flow analyzer           *)
(* (toka_analysis_tools/control_flow.py) and the dependency analyzer       *)
(* (toka_analysis_tools/dependency_graph.py), each on its own and one      *)
(* after the other as cli.combined_command runs them.                      *)
(*                                                                         *)
(* Source text is modelled by its lines.  A line, a path and a module name *)
(* are the Python strings themselves; what the code asks of a string       *)
(* (substring test, prefix test, strip, lower, count, regex match) is a    *)
(* table over the finite vocabulary the inputs are drawn from, computed    *)
(* with Python's own operations.  A Python dict is a record of its keys in *)
(* insertion order and its mapping; a list is a sequence.                  *)
(***************************************************************************)
EXTENDS Integers, Sequences, FiniteSets, TLC

VARIABLES
    \* ---- ControlFlowAnalyzer ----
    files,            \* the workspace's files: path -> [readable, content]
    fpc,              \* position in ControlFlowAnalyzer.analyze_workspace
    rust_files,       \* self.rust_files
    ftask,            \* the pool's futures: "pending", "running", "done", "merged"
    fresult,          \* each finished future's result
    function_flows,   \* self.function_flows
    system_flow,      \* self.system_flow
    \* ---- _build_function_cfg, statement by statement ----
    b_pc, b_func, b_lines, b_i, b_cur,
    \* ---- _classify_async_pattern ----
    u_pc, u_await, u_spawn, u_out,
    \* ---- DependencyAnalyzer and DependencyVisualizer ----
    manifests,        \* the workspace's manifests
    dpc,              \* position in DependencyAnalyzer.analyze_workspace
    workspace_manifest,
    crate_paths,
    dtask, dresult,
    crates,           \* self.crates
    agent_specs,      \* self.agent_specs
    dependency_graph, \* self.dependency_graph
    exported          \* what the last visualizer call returned

flowVars == <<files, fpc, rust_files, ftask, fresult, function_flows, system_flow>>
buildVars == <<b_pc, b_func, b_lines, b_i, b_cur>>
unitVars == <<u_pc, u_await, u_spawn, u_out>>
depVars == <<manifests, dpc, workspace_manifest, crate_paths, dtask, dresult,
             crates, agent_specs, dependency_graph, exported>>
vars == <<flowVars, buildVars, unitVars, depVars>>

\* ------------------------------------------------------------------
\* String tables
\* ------------------------------------------------------------------
\* Source lines, paths and names the inputs are drawn from.
SigLines ==
    {"async fn tick() {", "fn open() {", "fn run() {", "fn size(&self) -> usize;", "pub async fn run() {", "pub fn load() {"}
BodyLines ==
    {"", "    // note", "    for i in 0..n {", "    if v > 0 {", "    let total = compute_total(first_value, second_value, third);", "    let v = fetch().await;", "    let v = fetch().await?;", "    let v = opt.unwrap();", "    let v = parse(s)?;", "    let v = r.map_err(conv);", "    let x = 1;", "    load();", "    loop {", "    match v {", "    notify(v);", "    return v;", "    self.state = State::Ready;", "    self.transition_to(next_state);", "    std::thread::spawn(job);", "    tokio::spawn(worker());", "    while ok {", "    }", "}"}
\* str.strip() of each source line.
Strip ==
    "" :> ""
    @@ "    // note" :> "// note"
    @@ "    for i in 0..n {" :> "for i in 0..n {"
    @@ "    if v > 0 {" :> "if v > 0 {"
    @@ "    let total = compute_total(first_value, second_value, third);" :> "let total = compute_total(first_value, second_value, third);"
    @@ "    let v = fetch().await;" :> "let v = fetch().await;"
    @@ "    let v = fetch().await?;" :> "let v = fetch().await?;"
    @@ "    let v = opt.unwrap();" :> "let v = opt.unwrap();"
    @@ "    let v = parse(s)?;" :> "let v = parse(s)?;"
    @@ "    let v = r.map_err(conv);" :> "let v = r.map_err(conv);"
    @@ "    let x = 1;" :> "let x = 1;"
    @@ "    load();" :> "load();"
    @@ "    loop {" :> "loop {"
    @@ "    match v {" :> "match v {"
    @@ "    notify(v);" :> "notify(v);"
    @@ "    return v;" :> "return v;"
    @@ "    self.state = State::Ready;" :> "self.state = State::Ready;"
    @@ "    self.transition_to(next_state);" :> "self.transition_to(next_state);"
    @@ "    std::thread::spawn(job);" :> "std::thread::spawn(job);"
    @@ "    tokio::spawn(worker());" :> "tokio::spawn(worker());"
    @@ "    while ok {" :> "while ok {"
    @@ "    }" :> "}"
    @@ "async fn tick() {" :> "async fn tick() {"
    @@ "fn open() {" :> "fn open() {"
    @@ "fn run() {" :> "fn run() {"
    @@ "fn size(&self) -> usize;" :> "fn size(&self) -> usize;"
    @@ "pub async fn run() {" :> "pub async fn run() {"
    @@ "pub fn load() {" :> "pub fn load() {"
    @@ "}" :> "}"
\* str.lower() of each stripped line, module name and description.
Lower ==
    "" :> ""
    @@ "// note" :> "// note"
    @@ "Deterministic kernel" :> "deterministic kernel"
    @@ "Persistent storage drivers" :> "persistent storage drivers"
    @@ "async fn tick() {" :> "async fn tick() {"
    @@ "fn open() {" :> "fn open() {"
    @@ "fn run() {" :> "fn run() {"
    @@ "fn size(&self) -> usize;" :> "fn size(&self) -> usize;"
    @@ "for i in 0..n {" :> "for i in 0..n {"
    @@ "if v > 0 {" :> "if v > 0 {"
    @@ "let total = compute_total(first_value, second_value, third);" :> "let total = compute_total(first_value, second_value, third);"
    @@ "let v = fetch().await;" :> "let v = fetch().await;"
    @@ "let v = fetch().await?;" :> "let v = fetch().await?;"
    @@ "let v = opt.unwrap();" :> "let v = opt.unwrap();"
    @@ "let v = parse(s)?;" :> "let v = parse(s)?;"
    @@ "let v = r.map_err(conv);" :> "let v = r.map_err(conv);"
    @@ "let x = 1;" :> "let x = 1;"
    @@ "load();" :> "load();"
    @@ "loop {" :> "loop {"
    @@ "match v {" :> "match v {"
    @@ "notify(v);" :> "notify(v);"
    @@ "pub async fn run() {" :> "pub async fn run() {"
    @@ "pub fn load() {" :> "pub fn load() {"
    @@ "return v;" :> "return v;"
    @@ "self.state = State::Ready;" :> "self.state = state::ready;"
    @@ "self.transition_to(next_state);" :> "self.transition_to(next_state);"
    @@ "serde" :> "serde"
    @@ "std::thread::spawn(job);" :> "std::thread::spawn(job);"
    @@ "toka-ghost" :> "toka-ghost"
    @@ "toka-kernel" :> "toka-kernel"
    @@ "toka-runtime" :> "toka-runtime"
    @@ "toka-store-core" :> "toka-store-core"
    @@ "toka-types" :> "toka-types"
    @@ "tokio" :> "tokio"
    @@ "tokio::spawn(worker());" :> "tokio::spawn(worker());"
    @@ "while ok {" :> "while ok {"
    @@ "}" :> "}"
\* Occurs[p]: the strings s with `p in s` (Python substring test).
Occurs ==
    "(" :> {"    let total = compute_total(first_value, second_value, third);", "    let v = fetch().await;", "    let v = fetch().await?;", "    let v = opt.unwrap();", "    let v = parse(s)?;", "    let v = r.map_err(conv);", "    load();", "    notify(v);", "    self.transition_to(next_state);", "    std::thread::spawn(job);", "    tokio::spawn(worker());", "async fn tick() {", "fn open() {", "fn run() {", "fn size(&self) -> usize;", "let total = compute_total(first_value, second_value, third);", "let v = fetch().await;", "let v = fetch().await?;", "let v = opt.unwrap();", "let v = parse(s)?;", "let v = r.map_err(conv);", "load();", "notify(v);", "pub async fn run() {", "pub fn load() {", "self.transition_to(next_state);", "std::thread::spawn(job);", "tokio::spawn(worker());"}
    @@ "*.tmp" :> {}
    @@ ".await" :> {"    let v = fetch().await;", "    let v = fetch().await?;", "let v = fetch().await;", "let v = fetch().await?;"}
    @@ ".git/" :> {}
    @@ ".git/*" :> {}
    @@ ".map_err" :> {"    let v = r.map_err(conv);", "let v = r.map_err(conv);"}
    @@ "=" :> {"    let total = compute_total(first_value, second_value, third);", "    let v = fetch().await;", "    let v = fetch().await?;", "    let v = opt.unwrap();", "    let v = parse(s)?;", "    let v = r.map_err(conv);", "    let x = 1;", "    self.state = State::Ready;", "let total = compute_total(first_value, second_value, third);", "let v = fetch().await;", "let v = fetch().await?;", "let v = opt.unwrap();", "let v = parse(s)?;", "let v = r.map_err(conv);", "let x = 1;", "self.state = State::Ready;", "self.state = state::ready;"}
    @@ "?" :> {"    let v = fetch().await?;", "    let v = parse(s)?;", "let v = fetch().await?;", "let v = parse(s)?;"}
    @@ "agent" :> {}
    @@ "auth" :> {}
    @@ "build.rs" :> {"crates/toka-auth/build.rs"}
    @@ "bus" :> {}
    @@ "cli" :> {}
    @@ "core" :> {"toka-store-core"}
    @@ "gateway" :> {}
    @@ "if" :> {"    if v > 0 {", "    notify(v);", "if v > 0 {", "notify(v);"}
    @@ "kernel" :> {"deterministic kernel", "toka-kernel"}
    @@ "llm" :> {}
    @@ "match" :> {"    match v {", "match v {"}
    @@ "orchestration" :> {}
    @@ "raft" :> {}
    @@ "return" :> {"    return v;", "return v;"}
    @@ "runtime" :> {"toka-runtime"}
    @@ "security" :> {}
    @@ "state" :> {"    self.state = State::Ready;", "    self.transition_to(next_state);", "self.state = State::Ready;", "self.state = state::ready;", "self.transition_to(next_state);"}
    @@ "std::thread::spawn" :> {"    std::thread::spawn(job);", "std::thread::spawn(job);"}
    @@ "storage" :> {"persistent storage drivers"}
    @@ "store" :> {"toka-store-core"}
    @@ "target/" :> {"crates/toka-kernel/target/gen.rs"}
    @@ "target/*" :> {}
    @@ "toka-agent-runtime" :> {}
    @@ "toka-auth" :> {"crates/toka-auth/build.rs"}
    @@ "toka-bus-core" :> {}
    @@ "toka-cli" :> {}
    @@ "toka-config-cli" :> {}
    @@ "toka-kernel" :> {"crates/toka-kernel/README.md", "crates/toka-kernel/src/lib.rs", "crates/toka-kernel/target/gen.rs"}
    @@ "toka-llm-gateway" :> {}
    @@ "toka-orchestration" :> {}
    @@ "toka-runtime" :> {"crates/toka-runtime/src/lib.rs"}
    @@ "toka-store-core" :> {}
    @@ "toka-store-memory" :> {}
    @@ "toka-store-sled" :> {}
    @@ "toka-store-sqlite" :> {}
    @@ "tokio::spawn" :> {"    tokio::spawn(worker());", "tokio::spawn(worker());"}
    @@ "tools" :> {}
    @@ "transition" :> {"    self.transition_to(next_state);", "self.transition_to(next_state);"}
    @@ "unwrap" :> {"    let v = opt.unwrap();", "let v = opt.unwrap();"}
    @@ "{" :> {"    for i in 0..n {", "    if v > 0 {", "    loop {", "    match v {", "    while ok {", "async fn tick() {", "fn open() {", "fn run() {", "for i in 0..n {", "if v > 0 {", "loop {", "match v {", "pub async fn run() {", "pub fn load() {", "while ok {"}
    @@ "}" :> {"    }", "}"}
\* Prefixed[p]: the strings s with s.startswith(p).
Prefixed ==
    "//" :> {"// note"}
    @@ "if " :> {"if v > 0 {"}
    @@ "match " :> {"match v {"}
    @@ "for " :> {"for i in 0..n {"}
    @@ "while " :> {"while ok {"}
    @@ "loop" :> {"loop {"}
    @@ "crates/" :> {"crates/toka-auth/build.rs", "crates/toka-kernel/README.md", "crates/toka-kernel/src/lib.rs", "crates/toka-kernel/target/gen.rs", "crates/toka-runtime/src/lib.rs"}
    @@ "src/" :> {"src/main.rs"}
    @@ "tests/" :> {}
\* Suffixed[p]: the paths a glob *p matches by file name.
Suffixed ==
    ".rs" :> {"crates/toka-auth/build.rs", "crates/toka-kernel/src/lib.rs", "crates/toka-kernel/target/gen.rs", "crates/toka-runtime/src/lib.rs", "src/main.rs"}
\* str.count of a brace in each source line.
OpenCount ==
    "" :> 0 @@ "    // note" :> 0 @@ "    for i in 0..n {" :> 1
    @@ "    if v > 0 {" :> 1 @@ "    let total = compute_total(first_value, second_value, third);" :> 0 @@ "    let v = fetch().await;" :> 0
    @@ "    let v = fetch().await?;" :> 0 @@ "    let v = opt.unwrap();" :> 0 @@ "    let v = parse(s)?;" :> 0
    @@ "    let v = r.map_err(conv);" :> 0 @@ "    let x = 1;" :> 0 @@ "    load();" :> 0
    @@ "    loop {" :> 1 @@ "    match v {" :> 1 @@ "    notify(v);" :> 0
    @@ "    return v;" :> 0 @@ "    self.state = State::Ready;" :> 0 @@ "    self.transition_to(next_state);" :> 0
    @@ "    std::thread::spawn(job);" :> 0 @@ "    tokio::spawn(worker());" :> 0 @@ "    while ok {" :> 1
    @@ "    }" :> 0 @@ "async fn tick() {" :> 1 @@ "fn open() {" :> 1
    @@ "fn run() {" :> 1 @@ "fn size(&self) -> usize;" :> 0 @@ "pub async fn run() {" :> 1
    @@ "pub fn load() {" :> 1 @@ "}" :> 0
CloseCount ==
    "" :> 0 @@ "    // note" :> 0 @@ "    for i in 0..n {" :> 0
    @@ "    if v > 0 {" :> 0 @@ "    let total = compute_total(first_value, second_value, third);" :> 0 @@ "    let v = fetch().await;" :> 0
    @@ "    let v = fetch().await?;" :> 0 @@ "    let v = opt.unwrap();" :> 0 @@ "    let v = parse(s)?;" :> 0
    @@ "    let v = r.map_err(conv);" :> 0 @@ "    let x = 1;" :> 0 @@ "    load();" :> 0
    @@ "    loop {" :> 0 @@ "    match v {" :> 0 @@ "    notify(v);" :> 0
    @@ "    return v;" :> 0 @@ "    self.state = State::Ready;" :> 0 @@ "    self.transition_to(next_state);" :> 0
    @@ "    std::thread::spawn(job);" :> 0 @@ "    tokio::spawn(worker());" :> 0 @@ "    while ok {" :> 0
    @@ "    }" :> 1 @@ "async fn tick() {" :> 0 @@ "fn open() {" :> 0
    @@ "fn run() {" :> 0 @@ "fn size(&self) -> usize;" :> 0 @@ "pub async fn run() {" :> 0
    @@ "pub fn load() {" :> 0 @@ "}" :> 1
\* group(3) of the signature regex matched at the start of a line; the empty
\* string stands for no match (the group itself is never empty).
FnMatch ==
    "" :> "" @@ "    // note" :> ""
    @@ "    for i in 0..n {" :> "" @@ "    if v > 0 {" :> ""
    @@ "    let total = compute_total(first_value, second_value, third);" :> "" @@ "    let v = fetch().await;" :> ""
    @@ "    let v = fetch().await?;" :> "" @@ "    let v = opt.unwrap();" :> ""
    @@ "    let v = parse(s)?;" :> "" @@ "    let v = r.map_err(conv);" :> ""
    @@ "    let x = 1;" :> "" @@ "    load();" :> ""
    @@ "    loop {" :> "" @@ "    match v {" :> ""
    @@ "    notify(v);" :> "" @@ "    return v;" :> ""
    @@ "    self.state = State::Ready;" :> "" @@ "    self.transition_to(next_state);" :> ""
    @@ "    std::thread::spawn(job);" :> "" @@ "    tokio::spawn(worker());" :> ""
    @@ "    while ok {" :> "" @@ "    }" :> ""
    @@ "async fn tick() {" :> "tick" @@ "fn open() {" :> "open"
    @@ "fn run() {" :> "run" @@ "fn size(&self) -> usize;" :> "size"
    @@ "pub async fn run() {" :> "run" @@ "pub fn load() {" :> "load"
    @@ "}" :> ""
\* The lines in which re.search(r'async\s+fn\s+(\w+)') finds a match.
AsyncFnLines ==
    {"async fn tick() {", "pub async fn run() {"}
\* The node label of a stripped line: its first 50 characters, then ... when longer.
Label ==
    "" :> ""
    @@ "// note" :> "// note"
    @@ "async fn tick() {" :> "async fn tick() {"
    @@ "fn open() {" :> "fn open() {"
    @@ "fn run() {" :> "fn run() {"
    @@ "fn size(&self) -> usize;" :> "fn size(&self) -> usize;"
    @@ "for i in 0..n {" :> "for i in 0..n {"
    @@ "if v > 0 {" :> "if v > 0 {"
    @@ "let total = compute_total(first_value, second_value, third);" :> "let total = compute_total(first_value, second_valu..."
    @@ "let v = fetch().await;" :> "let v = fetch().await;"
    @@ "let v = fetch().await?;" :> "let v = fetch().await?;"
    @@ "let v = opt.unwrap();" :> "let v = opt.unwrap();"
    @@ "let v = parse(s)?;" :> "let v = parse(s)?;"
    @@ "let v = r.map_err(conv);" :> "let v = r.map_err(conv);"
    @@ "let x = 1;" :> "let x = 1;"
    @@ "load();" :> "load();"
    @@ "loop {" :> "loop {"
    @@ "match v {" :> "match v {"
    @@ "notify(v);" :> "notify(v);"
    @@ "pub async fn run() {" :> "pub async fn run() {"
    @@ "pub fn load() {" :> "pub fn load() {"
    @@ "return v;" :> "return v;"
    @@ "self.state = State::Ready;" :> "self.state = State::Ready;"
    @@ "self.transition_to(next_state);" :> "self.transition_to(next_state);"
    @@ "std::thread::spawn(job);" :> "std::thread::spawn(job);"
    @@ "tokio::spawn(worker());" :> "tokio::spawn(worker());"
    @@ "while ok {" :> "while ok {"
    @@ "}" :> "}"
\* group(1) of re.search(r'(\w+)\s*\(') in a node label; the empty string for no match.
CallMatch ==
    "" :> "" @@ "// note" :> ""
    @@ "async fn tick() {" :> "tick" @@ "fn open() {" :> "open"
    @@ "fn run() {" :> "run" @@ "fn size(&self) -> usize;" :> "size"
    @@ "for i in 0..n {" :> "" @@ "if v > 0 {" :> ""
    @@ "let total = compute_total(first_value, second_valu..." :> "compute_total" @@ "let v = fetch().await;" :> "fetch"
    @@ "let v = fetch().await?;" :> "fetch" @@ "let v = opt.unwrap();" :> "unwrap"
    @@ "let v = parse(s)?;" :> "parse" @@ "let v = r.map_err(conv);" :> "map_err"
    @@ "let x = 1;" :> "" @@ "load();" :> "load"
    @@ "loop {" :> "" @@ "match v {" :> ""
    @@ "notify(v);" :> "notify" @@ "pub async fn run() {" :> "run"
    @@ "pub fn load() {" :> "load" @@ "return v;" :> ""
    @@ "self.state = State::Ready;" :> "" @@ "self.transition_to(next_state);" :> "transition_to"
    @@ "std::thread::spawn(job);" :> "spawn" @@ "tokio::spawn(worker());" :> "spawn"
    @@ "while ok {" :> "" @@ "}" :> ""
\* f"Entry: {func.name}" and f"Exit: {func.name}"
EntryLabel ==
    "load" :> "Entry: load" @@ "open" :> "Entry: open" @@ "run" :> "Entry: run"
    @@ "size" :> "Entry: size" @@ "tick" :> "Entry: tick"
ExitLabel ==
    "load" :> "Exit: load" @@ "open" :> "Exit: open" @@ "run" :> "Exit: run"
    @@ "size" :> "Exit: size" @@ "tick" :> "Exit: tick"
\* str.replace('-', '_') of each module name.
Underscored ==
    "serde" :> "serde" @@ "toka-ghost" :> "toka_ghost"
    @@ "toka-kernel" :> "toka_kernel" @@ "toka-runtime" :> "toka_runtime"
    @@ "toka-store-core" :> "toka_store_core" @@ "toka-types" :> "toka_types"
    @@ "tokio" :> "tokio"
\* Path(member).name of each workspace member directory.
BaseName ==
    "crates/toka-kernel" :> "toka-kernel"
    @@ "crates/toka-runtime" :> "toka-runtime"
    @@ "crates/toka-store-core" :> "toka-store-core"
\* The place of each module name and category in sorted() order.
SortRank ==
    "consensus" :> 1 @@ "core" :> 2 @@ "general" :> 3 @@ "llm" :> 4
    @@ "messaging" :> 5 @@ "orchestration" :> 6 @@ "runtime" :> 7 @@ "security" :> 8
    @@ "serde" :> 9 @@ "storage" :> 10 @@ "toka-ghost" :> 11 @@ "toka-kernel" :> 12
    @@ "toka-runtime" :> 13 @@ "toka-store-core" :> 14 @@ "toka-types" :> 15 @@ "tokio" :> 16
    @@ "tools" :> 17

\* ------------------------------------------------------------------
\* Python values
\* ------------------------------------------------------------------
\* `p in s` and s.startswith(p)
Contains(p, s) == s \in Occurs[p]
StartsWith(s, p) == s \in Prefixed[p]

\* None, where a field holds either None or a string, and where it holds
\* either None or an object
None == "<None>"
Nothing == <<>>

\* str(i) of a line index
IndexStr == <<"0", "1", "2", "3", "4", "5", "6", "7", "8", "9">>
ToStr(i) == IndexStr[i + 1]

\* dict: {} ; k in d ; d[k] = v (a new key goes last, a known key keeps its place)
EmptyDict == [keys |-> <<>>, map |-> <<>>]
DictHas(d, k) == k \in DOMAIN d.map
DictPut(d, k, v) ==
    [keys |-> IF k \in DOMAIN d.map THEN d.keys ELSE Append(d.keys, k),
     map  |-> (k :> v) @@ d.map]
\* list(d.values())
DictValues(d) == [i \in 1..Len(d.keys) |-> d.map[d.keys[i]]]

\* ------------------------------------------------------------------
\* ControlFlowAnalyzer._extract_functions
\* ------------------------------------------------------------------
FunctionFlow(name, file_path, start_line, end_line) ==
    [name |-> name, file_path |-> file_path,
     start_line |-> start_line, end_line |-> end_line,
     nodes |-> EmptyDict, edges |-> <<>>,
     async_function |-> FALSE, complexity_metrics |-> EmptyDict]

\* The scan `for j in range(i, len(lines))` from line j (1-based here) with the
\* running brace_count; end_line keeps its initial value, start_line, when the
\* scan ends without a break.
RECURSIVE FindEnd(_, _, _, _)
FindEnd(lines, j, brace_count, start_line) ==
    IF j > Len(lines) THEN start_line
    ELSE LET opened == IF Contains("{", lines[j])
                       THEN brace_count + OpenCount[lines[j]] ELSE brace_count
             closed == IF Contains("}", lines[j])
                       THEN opened - CloseCount[lines[j]] ELSE opened
         IN  IF Contains("}", lines[j]) /\ closed = 0 THEN j
             ELSE FindEnd(lines, j + 1, closed, start_line)

\* brace_count after the scan has passed lines i..j (1-based)
RECURSIVE BraceCount(_, _, _)
BraceCount(lines, i, j) ==
    IF j < i THEN 0
    ELSE BraceCount(lines, i, j - 1) + OpenCount[lines[j]] - CloseCount[lines[j]]

RECURSIVE ExtractFrom(_, _, _)
ExtractFrom(lines, file_path, i) ==
    IF i > Len(lines) THEN <<>>
    ELSE (IF FnMatch[lines[i]] # ""
          THEN <<FunctionFlow(FnMatch[lines[i]], file_path, i, FindEnd(lines, i, 0, i))>>
          ELSE <<>>)
         \o ExtractFrom(lines, file_path, i + 1)

\* content is the file's text as content.split('\n')
ExtractFunctions(content, file_path) == ExtractFrom(content, file_path, 1)

\* ------------------------------------------------------------------
\* ControlFlowAnalyzer._classify_line and _build_function_cfg
\* ------------------------------------------------------------------
\* ClassifyLine with the error-propagation test moved to the front.
ClassifyLineErrorFirst(line) ==
    IF Contains("?", line) \/ Contains(".map_err", line) \/ Contains("unwrap", line)
    THEN "error_handler"
    ELSE IF Contains(".await", line) THEN "await_point"
    ELSE IF Contains("tokio::spawn", line) \/ Contains("std::thread::spawn", line)
         THEN "spawn_point"
    ELSE IF Contains("return", line) THEN "return_point"
    ELSE IF StartsWith(line, "if ") \/ StartsWith(line, "match ") THEN "condition"
    ELSE IF StartsWith(line, "for ") \/ StartsWith(line, "while ")
            \/ StartsWith(line, "loop")
         THEN "loop"
    ELSE IF Contains("state", Lower[line])
            /\ (Contains("=", line) \/ Contains("transition", line))
         THEN "state_transition"
    ELSE IF Contains("(", line) /\ ~StartsWith(line, "//") THEN "function_call"
    ELSE "statement"

\* _classify_line
ClassifyLine(line) ==
    IF Contains(".await", line) THEN "await_point"
    ELSE IF Contains("tokio::spawn", line) \/ Contains("std::thread::spawn", line)
         THEN "spawn_point"
    ELSE IF Contains("return", line) THEN "return_point"
    ELSE IF StartsWith(line, "if ") \/ StartsWith(line, "match ") THEN "condition"
    ELSE IF StartsWith(line, "for ") \/ StartsWith(line, "while ")
            \/ StartsWith(line, "loop")
         THEN "loop"
    ELSE IF Contains("state", Lower[line])
            /\ (Contains("=", line) \/ Contains("transition", line))
         THEN "state_transition"
    ELSE IF Contains("?", line) \/ Contains(".map_err", line) \/ Contains("unwrap", line)
         THEN "error_handler"
    ELSE IF Contains("(", line) /\ ~StartsWith(line, "//") THEN "function_call"
    ELSE "statement"

\* f"{func.name}_entry", f"{func.name}_{i}", f"{func.name}_exit": a node id is
\* the pair of its function's name and its suffix.
EntryId(name) == <<name, "entry">>
LineId(name, i) == <<name, ToStr(i)>>
ExitId(name) == <<name, "exit">>

FlowNode(id, node_type, label, source_line, source_file) ==
    [id |-> id, node_type |-> node_type, label |-> label,
     source_line |-> source_line, source_file |-> source_file]

FlowEdge(source, target, label, edge_type) ==
    [source |-> source, target |-> target, label |-> label, edge_type |-> edge_type]

\* func.nodes[entry_id] = FlowNode(...)
AddEntryNode(func) ==
    [func EXCEPT !.nodes = DictPut(@, EntryId(func.name),
        FlowNode(EntryId(func.name), "entry", EntryLabel[func.name],
                 func.start_line, func.file_path))]

\* the lines the loop passes over
SkippedLine(line_stripped) ==
    line_stripped = "" \/ StartsWith(line_stripped, "//")

\* AddLineNode with source_line counted from the line after the signature.
AddLineNodeOneBased(func, i, line_stripped) ==
    [func EXCEPT !.nodes = DictPut(@, LineId(func.name, i),
        FlowNode(LineId(func.name, i), ClassifyLine(line_stripped),
                 Label[line_stripped], func.start_line + i + 1, func.file_path))]

\* func.nodes[node_id] = node, for the line at index i (0-based, as enumerate gives it)
AddLineNode(func, i, line_stripped) ==
    [func EXCEPT !.nodes = DictPut(@, LineId(func.name, i),
        FlowNode(LineId(func.name, i), ClassifyLine(line_stripped),
                 Label[line_stripped], func.start_line + i, func.file_path))]

\* LineEdge with the '?' test before the '.await' test.
LineEdgeErrorFirst(current_node_id, node_id, line_stripped) ==
    IF Contains("?", line_stripped)
    THEN FlowEdge(current_node_id, node_id, "error propagation", "error")
    ELSE IF Contains(".await", line_stripped)
    THEN FlowEdge(current_node_id, node_id, "await", "async")
    ELSE IF Contains("match", line_stripped) \/ Contains("if", line_stripped)
    THEN FlowEdge(current_node_id, node_id, "conditional", "control")
    ELSE FlowEdge(current_node_id, node_id, None, "control")

\* the edge from the previous node to the line's node
LineEdge(current_node_id, node_id, line_stripped) ==
    IF Contains(".await", line_stripped)
    THEN FlowEdge(current_node_id, node_id, "await", "async")
    ELSE IF Contains("?", line_stripped)
    THEN FlowEdge(current_node_id, node_id, "error propagation", "error")
    ELSE IF Contains("match", line_stripped) \/ Contains("if", line_stripped)
    THEN FlowEdge(current_node_id, node_id, "conditional", "control")
    ELSE FlowEdge(current_node_id, node_id, None, "control")

\* AddLineEdge with the target numbered from one instead of enumerate's zero:
\* the edge then names a node that is not in the map.
AddLineEdgeOneBased(func, current_node_id, i, line_stripped) ==
    IF current_node_id # LineId(func.name, i)
    THEN [func EXCEPT !.edges =
            Append(@, LineEdge(current_node_id, LineId(func.name, i + 1), line_stripped))]
    ELSE func

\* AddLineEdge with every edge leaving the entry node instead of the
\* previous node.
AddLineEdgeFromEntry(func, current_node_id, i, line_stripped) ==
    IF current_node_id # LineId(func.name, i)
    THEN [func EXCEPT !.edges =
            Append(@, LineEdge(EntryId(func.name), LineId(func.name, i), line_stripped))]
    ELSE func

\* `if current_node_id != node_id: func.edges.append(...)`
AddLineEdge(func, current_node_id, i, line_stripped) ==
    IF current_node_id # LineId(func.name, i)
    THEN [func EXCEPT !.edges =
            Append(@, LineEdge(current_node_id, LineId(func.name, i), line_stripped))]
    ELSE func

\* func.nodes[exit_id] = FlowNode(...)
AddExitNode(func) ==
    [func EXCEPT !.nodes = DictPut(@, ExitId(func.name),
        FlowNode(ExitId(func.name), "exit", ExitLabel[func.name],
                 func.end_line, func.file_path))]

\* AddExitEdge with source and target exchanged.
AddExitEdgeReversed(func, current_node_id) ==
    IF current_node_id # ExitId(func.name)
    THEN [func EXCEPT !.edges =
            Append(@, FlowEdge(ExitId(func.name), current_node_id, None, "control"))]
    ELSE func

\* `if current_node_id != exit_id: func.edges.append(...)`
AddExitEdge(func, current_node_id) ==
    IF current_node_id # ExitId(func.name)
    THEN [func EXCEPT !.edges =
            Append(@, FlowEdge(current_node_id, ExitId(func.name), None, "control"))]
    ELSE func

\* The loop over the lines from index i on, then the exit node and its edge.
RECURSIVE CfgFrom(_, _, _, _)
CfgFrom(func, current_node_id, lines, i) ==
    IF i >= Len(lines)
    THEN AddExitEdge(AddExitNode(func), current_node_id)
    ELSE IF SkippedLine(Strip[lines[i + 1]])
    THEN CfgFrom(func, current_node_id, lines, i + 1)
    ELSE CfgFrom(AddLineEdge(AddLineNode(func, i, Strip[lines[i + 1]]),
                             current_node_id, i, Strip[lines[i + 1]]),
                 LineId(func.name, i), lines, i + 1)

\* source is the function's text as source.split('\n')
BuildFunctionCfg(func, source) ==
    CfgFrom(AddEntryNode(func), EntryId(func.name), source, 0)

\* ------------------------------------------------------------------
\* ControlFlowAnalyzer._analyze_single_file
\* ------------------------------------------------------------------
\* patterns['is_async']: re.search(r'async\s+fn\s+(\w+)', func_source)
IsAsync(source) == \E k \in 1..Len(source) : source[k] \in AsyncFnLines

FuncSource(content, func) == SubSeq(content, func.start_line, func.end_line)

AnalyzeFunction(content, func) ==
    BuildFunctionCfg([func EXCEPT !.async_function = IsAsync(FuncSource(content, func))],
                     FuncSource(content, func))

\* The analyzed functions of a file; [] when reading the file raises.
AnalyzeSingleFile(file, file_path) ==
    IF ~file.readable THEN <<>>
    ELSE LET functions == ExtractFunctions(file.content, file_path)
             kept == SelectSeq(functions,
                        LAMBDA f : f.start_line > 0 /\ f.end_line <= Len(file.content))
         IN  [k \in 1..Len(kept) |-> AnalyzeFunction(file.content, kept[k])]

\* ------------------------------------------------------------------
\* _build_function_cfg, statement by statement, on one extracted function
\* ------------------------------------------------------------------
MaxBody == 2

BodySeqs == UNION {[1..n -> BodyLines] : n \in 0..MaxBody}

BuildOff ==
    /\ b_pc = "off" /\ b_func = EmptyDict /\ b_lines = <<>> /\ b_i = 0 /\ b_cur = <<>>

\* A file of one function: a signature line, a body and a closing brace,
\* after zero or one leading line; the function is what _extract_functions
\* returns for it, with the flag _analyze_single_file sets.
BuildInit ==
    \E sig \in {"pub async fn run() {", "pub fn load() {"}, body \in BodySeqs,
       lead \in {<<>>, <<"">>} :
        LET content == lead \o <<sig>> \o body \o <<"}">>
            func == ExtractFunctions(content, "src/main.rs")[1]
        IN  /\ b_pc = "entry"
            /\ b_func = [func EXCEPT !.async_function =
                                        IsAsync(FuncSource(content, func))]
            /\ b_lines = FuncSource(content, func)
            /\ b_i = 0
            /\ b_cur = <<>>

BuildEntry ==
    /\ b_pc = "entry"
    /\ b_func' = AddEntryNode(b_func)
    /\ b_cur' = EntryId(b_func.name)
    /\ b_pc' = "line"
    /\ UNCHANGED <<b_lines, b_i, flowVars, unitVars, depVars>>

BuildSkipLine ==
    /\ b_pc = "line" /\ b_i < Len(b_lines)
    /\ SkippedLine(Strip[b_lines[b_i + 1]])
    /\ b_i' = b_i + 1
    /\ UNCHANGED <<b_pc, b_func, b_lines, b_cur, flowVars, unitVars, depVars>>

BuildLineNode ==
    /\ b_pc = "line" /\ b_i < Len(b_lines)
    /\ ~SkippedLine(Strip[b_lines[b_i + 1]])
    /\ b_func' = AddLineNode(b_func, b_i, Strip[b_lines[b_i + 1]])
    /\ b_pc' = "edge"
    /\ UNCHANGED <<b_lines, b_i, b_cur, flowVars, unitVars, depVars>>

BuildLineEdge ==
    /\ b_pc = "edge"
    /\ b_func' = AddLineEdge(b_func, b_cur, b_i, Strip[b_lines[b_i + 1]])
    /\ b_cur' = LineId(b_func.name, b_i)
    /\ b_i' = b_i + 1
    /\ b_pc' = "line"
    /\ UNCHANGED <<b_lines, flowVars, unitVars, depVars>>

BuildExitNode ==
    /\ b_pc = "line" /\ b_i >= Len(b_lines)
    /\ b_func' = AddExitNode(b_func)
    /\ b_pc' = "exit_edge"
    /\ UNCHANGED <<b_lines, b_i, b_cur, flowVars, unitVars, depVars>>

BuildExitEdge ==
    /\ b_pc = "exit_edge"
    /\ b_func' = AddExitEdge(b_func, b_cur)
    /\ b_pc' = "done"
    /\ UNCHANGED <<b_lines, b_i, b_cur, flowVars, unitVars, depVars>>

BuildNext ==
    \/ BuildEntry
    \/ BuildSkipLine
    \/ BuildLineNode
    \/ BuildLineEdge
    \/ BuildExitNode
    \/ BuildExitEdge

\* ------------------------------------------------------------------
\* ControlFlowAnalyzer: system patterns and complexity metrics
\* ------------------------------------------------------------------
\* component_map, in its dict order
ComponentMap ==
    << [component |-> "kernel", crates |-> <<"toka-kernel">>],
       [component |-> "runtime", crates |-> <<"toka-runtime", "toka-agent-runtime">>],
       [component |-> "orchestration", crates |-> <<"toka-orchestration">>],
       [component |-> "storage", crates |-> <<"toka-store-core", "toka-store-memory",
                                             "toka-store-sled", "toka-store-sqlite">>],
       [component |-> "bus", crates |-> <<"toka-bus-core">>],
       [component |-> "auth", crates |-> <<"toka-auth">>],
       [component |-> "llm", crates |-> <<"toka-llm-gateway">>],
       [component |-> "cli", crates |-> <<"toka-cli", "toka-config-cli">>] >>

\* The first component one of whose crates occurs in the path, None when none does.
ComponentOf(file_path) ==
    LET hits == {k \in 1..Len(ComponentMap) :
                    \E c \in 1..Len(ComponentMap[k].crates) :
                        Contains(ComponentMap[k].crates[c], file_path)}
    IN  IF hits = {} THEN None
        ELSE ComponentMap[CHOOSE k \in hits : \A h \in hits : k <= h].component

\* function_components: only the functions whose path matches a component
FunctionComponents(flows) ==
    [name \in {n \in DOMAIN flows.map : ComponentOf(flows.map[n].file_path) # None}
        |-> ComponentOf(flows.map[name].file_path)]

\* AddInteraction without the `not in` test on the target list.
AddInteractionUnchecked(interactions, source_component, target_component) ==
    LET with_key == IF DictHas(interactions, source_component) THEN interactions
                    ELSE DictPut(interactions, source_component, <<>>)
    IN  DictPut(with_key, source_component,
                Append(with_key.map[source_component], target_component))

\* component_interactions after recording source -> target
AddInteraction(interactions, source_component, target_component) ==
    LET with_key == IF DictHas(interactions, source_component) THEN interactions
                    ELSE DictPut(interactions, source_component, <<>>)
        targets == with_key.map[source_component]
    IN  IF \E t \in 1..Len(targets) : targets[t] = target_component THEN with_key
        ELSE DictPut(with_key, source_component, Append(targets, target_component))

\* The body of `for edge in func_flow.edges` for one edge.
InteractEdge(interactions, flows, func, edge) ==
    LET function_components == FunctionComponents(flows)
        source_component == IF func.name \in DOMAIN function_components
                            THEN function_components[func.name] ELSE "unknown"
    IN  IF /\ edge.edge_type = "control"
           /\ DictHas(func.nodes, edge.target)
           /\ func.nodes.map[edge.target].node_type = "function_call"
           /\ CallMatch[func.nodes.map[edge.target].label] # ""
           /\ CallMatch[func.nodes.map[edge.target].label] \in DOMAIN function_components
           /\ function_components[CallMatch[func.nodes.map[edge.target].label]]
                # source_component
        THEN AddInteraction(interactions, source_component,
                function_components[CallMatch[func.nodes.map[edge.target].label]])
        ELSE interactions

RECURSIVE InteractEdges(_, _, _, _)
InteractEdges(interactions, flows, func, k) ==
    IF k > Len(func.edges) THEN interactions
    ELSE InteractEdges(InteractEdge(interactions, flows, func, func.edges[k]),
                       flows, func, k + 1)

RECURSIVE InteractFunctions(_, _, _)
InteractFunctions(interactions, flows, n) ==
    IF n > Len(flows.keys) THEN interactions
    ELSE InteractFunctions(InteractEdges(interactions, flows, flows.map[flows.keys[n]], 1),
                           flows, n + 1)

\* _analyze_component_interactions: self.system_flow.component_interactions afterwards
AnalyzeComponentInteractions(interactions, flows) ==
    InteractFunctions(interactions, flows, 1)

\* ClassifyAsyncPattern with `>= 3` for `> 3`.
ClassifyAsyncPatternFromThree(await_points, spawn_points) ==
    IF Len(spawn_points) > 0 /\ Len(await_points) > 0 THEN "spawn_and_await"
    ELSE IF Len(spawn_points) > 0 THEN "fire_and_forget"
    ELSE IF Len(await_points) >= 3 THEN "sequential_async"
    ELSE IF Len(await_points) > 0 THEN "simple_async"
    ELSE "sync_in_async"

\* _classify_async_pattern
ClassifyAsyncPattern(await_points, spawn_points) ==
    IF Len(spawn_points) > 0 /\ Len(await_points) > 0 THEN "spawn_and_await"
    ELSE IF Len(spawn_points) > 0 THEN "fire_and_forget"
    ELSE IF Len(await_points) > 3 THEN "sequential_async"
    ELSE IF Len(await_points) > 0 THEN "simple_async"
    ELSE "sync_in_async"

\* the ids of a function's nodes of one type, in the node map's order
NodesOfType(func, node_type) ==
    SelectSeq(func.nodes.keys, LAMBDA id : func.nodes.map[id].node_type = node_type)

\* The pattern a function adds to async_patterns: a list of one entry, or none.
AsyncPatternOf(func) ==
    IF func.async_function
       /\ (Len(NodesOfType(func, "await_point")) > 0
           \/ Len(NodesOfType(func, "spawn_point")) > 0)
    THEN << [function |-> func.name, file |-> func.file_path,
             await_points |-> NodesOfType(func, "await_point"),
             spawn_points |-> NodesOfType(func, "spawn_point"),
             pattern_type |-> ClassifyAsyncPattern(NodesOfType(func, "await_point"),
                                                   NodesOfType(func, "spawn_point"))] >>
    ELSE <<>>

RECURSIVE AsyncPatternsFrom(_, _)
AsyncPatternsFrom(flows, n) ==
    IF n > Len(flows.keys) THEN <<>>
    ELSE AsyncPatternOf(flows.map[flows.keys[n]]) \o AsyncPatternsFrom(flows, n + 1)

\* _analyze_async_patterns: self.system_flow.async_coordination_patterns afterwards
AnalyzeAsyncPatterns(flows) == AsyncPatternsFrom(flows, 1)

\* the number of a function's nodes whose type is one of node_types
CountNodes(func, node_types) ==
    Len(SelectSeq(DictValues(func.nodes), LAMBDA node : node.node_type \in node_types))

\* ComplexityMetrics without the `+ 1` of cyclomatic_complexity.
ComplexityMetricsNoBase(func) ==
    [cyclomatic_complexity |-> CountNodes(func, {"condition", "loop"}),
     async_complexity |-> CountNodes(func, {"await_point", "spawn_point"}),
     error_handling_complexity |-> CountNodes(func, {"error_handler"}),
     total_nodes |-> Len(func.nodes.keys),
     total_edges |-> Len(func.edges)]

\* func_flow.complexity_metrics as _compute_complexity_metrics sets it
ComplexityMetrics(func) ==
    [cyclomatic_complexity |-> CountNodes(func, {"condition", "loop"}) + 1,
     async_complexity |-> CountNodes(func, {"await_point", "spawn_point"}),
     error_handling_complexity |-> CountNodes(func, {"error_handler"}),
     total_nodes |-> Len(func.nodes.keys),
     total_edges |-> Len(func.edges)]

ComputeComplexityMetrics(flows) ==
    [flows EXCEPT !.map = [n \in DOMAIN flows.map |->
        [flows.map[n] EXCEPT !.complexity_metrics = ComplexityMetrics(flows.map[n])]]]

\* ------------------------------------------------------------------
\* ControlFlowAnalyzer.analyze_workspace
\* ------------------------------------------------------------------
\* AnalysisConfig.exclude_patterns and max_concurrent_analyzers
ExcludePatterns == {"target/*", ".git/*", "*.tmp", "build.rs"}
MaxConcurrentAnalyzers == 2

\* the sequences that list a finite set once each: the orders a directory
\* walk, or a pool's completions, may take
Enumerations(S) ==
    {s \in [1..Cardinality(S) -> S] : \A i, j \in 1..Cardinality(S) : s[i] = s[j] => i = j}

\* The texts a source file of the workspace may hold, as content.split('\n').
FileContents ==
    { <<"pub fn load() {", "    let x = 1;", "}">>,
      <<"pub async fn run() {", "    let v = fetch().await;", "    load();", "}", "">>,
      <<"fn run() {", "    if v > 0 {", "    let v = fetch().await;",
        "    let v = parse(s)?;", "    }", "}">>,
      <<"async fn tick() {", "    let x = 1;", "}", "fn open() {",
        "    tokio::spawn(worker());">>,
      <<"async fn tick() {", "    tokio::spawn(worker());", "    for i in 0..n {",
        "    load();", "    }", "}">> }

SourcePaths ==
    {"crates/toka-kernel/src/lib.rs", "crates/toka-runtime/src/lib.rs", "src/main.rs"}
OtherPaths == {"crates/toka-auth/build.rs", "crates/toka-kernel/README.md"}

Readable(content) == [readable |-> TRUE, content |-> content]
Unreadable == [readable |-> FALSE, content |-> <<>>]

EmptySystemFlow ==
    [component_interactions |-> EmptyDict, async_coordination_patterns |-> <<>>]

FlowOff ==
    /\ files = <<>> /\ fpc = "off" /\ rust_files = <<>> /\ ftask = <<>>
    /\ fresult = <<>> /\ function_flows = EmptyDict /\ system_flow = EmptySystemFlow

\* ControlFlowAnalyzer.__init__ over a workspace
FlowInit ==
    /\ files \in [SourcePaths \cup OtherPaths ->
                    {Readable(c) : c \in FileContents} \cup {Unreadable}]
    /\ \A p \in OtherPaths : files[p] = Readable(<<"pub fn load() {", "    let x = 1;", "}">>)
    /\ fpc = "discover"
    /\ rust_files = <<>>
    /\ ftask = <<>>
    /\ fresult = <<>>
    /\ function_flows = EmptyDict
    /\ system_flow = EmptySystemFlow

\* the *.rs files under a root that no exclude pattern occurs in
Discovered(root) ==
    {p \in DOMAIN files : /\ StartsWith(p, root)
                          /\ p \in Suffixed[".rs"]
                          /\ ~\E pattern \in ExcludePatterns : Contains(pattern, p)}

\* _discover_rust_files
DiscoverRustFiles ==
    /\ fpc = "discover"
    /\ \E in_crates \in Enumerations(Discovered("crates/")),
          in_src \in Enumerations(Discovered("src/")),
          in_tests \in Enumerations(Discovered("tests/")) :
            rust_files' = rust_files \o in_crates \o in_src \o in_tests
    /\ fpc' = "submit"
    /\ UNCHANGED <<files, ftask, fresult, function_flows, system_flow,
                   buildVars, unitVars, depVars>>

\* _analyze_function_flows: one future per discovered file
SubmitFiles ==
    /\ fpc = "submit"
    /\ ftask' = [i \in 1..Len(rust_files) |-> "pending"]
    /\ fresult' = [i \in 1..Len(rust_files) |-> <<>>]
    /\ fpc' = "pool"
    /\ UNCHANGED <<files, rust_files, function_flows, system_flow,
                   buildVars, unitVars, depVars>>

\* a free worker takes the next queued task
StartFileTask(i) ==
    /\ fpc = "pool" /\ ftask[i] = "pending"
    /\ \A j \in 1..(i - 1) : ftask[j] # "pending"
    /\ Cardinality({j \in DOMAIN ftask : ftask[j] = "running"}) < MaxConcurrentAnalyzers
    /\ ftask' = [ftask EXCEPT ![i] = "running"]
    /\ UNCHANGED <<files, fpc, rust_files, fresult, function_flows, system_flow,
                   buildVars, unitVars, depVars>>

\* the worker returns from _analyze_single_file
FinishFileTask(i) ==
    /\ fpc = "pool" /\ ftask[i] = "running"
    /\ ftask' = [ftask EXCEPT ![i] = "done"]
    /\ fresult' = [fresult EXCEPT ![i] = AnalyzeSingleFile(files[rust_files[i]], rust_files[i])]
    /\ UNCHANGED <<files, fpc, rust_files, function_flows, system_flow,
                   buildVars, unitVars, depVars>>

RECURSIVE MergeFunctions(_, _, _)
MergeFunctions(flows, functions, k) ==
    IF k > Len(functions) THEN flows
    ELSE MergeFunctions(DictPut(flows, functions[k].name, functions[k]), functions, k + 1)

\* as_completed yields a finished future; its functions go into function_flows
MergeFileResult(i) ==
    /\ fpc = "pool" /\ ftask[i] = "done"
    /\ function_flows' = MergeFunctions(function_flows, fresult[i], 1)
    /\ ftask' = [ftask EXCEPT ![i] = "merged"]
    /\ UNCHANGED <<files, fpc, rust_files, fresult, system_flow,
                   buildVars, unitVars, depVars>>

\* FilePoolExit as soon as no task is left in the queue.
FilePoolExitEarly ==
    /\ fpc = "pool"
    /\ \A i \in DOMAIN ftask : ftask[i] # "pending"
    /\ fpc' = "patterns"
    /\ UNCHANGED <<files, rust_files, ftask, fresult, function_flows, system_flow,
                   buildVars, unitVars, depVars>>

\* as_completed is exhausted and the executor shuts down
FilePoolExit ==
    /\ fpc = "pool"
    /\ \A i \in DOMAIN ftask : ftask[i] = "merged"
    /\ fpc' = "patterns"
    /\ UNCHANGED <<files, rust_files, ftask, fresult, function_flows, system_flow,
                   buildVars, unitVars, depVars>>

\* _analyze_system_patterns
AnalyzeSystemPatterns ==
    /\ fpc = "patterns"
    /\ system_flow' =
        [component_interactions |->
            AnalyzeComponentInteractions(system_flow.component_interactions, function_flows),
         async_coordination_patterns |-> AnalyzeAsyncPatterns(function_flows)]
    /\ fpc' = "metrics"
    /\ UNCHANGED <<files, rust_files, ftask, fresult, function_flows,
                   buildVars, unitVars, depVars>>

\* _compute_complexity_metrics, then analyze_workspace returns
ComputeMetrics ==
    /\ fpc = "metrics"
    /\ function_flows' = ComputeComplexityMetrics(function_flows)
    /\ fpc' = "done"
    /\ UNCHANGED <<files, rust_files, ftask, fresult, system_flow,
                   buildVars, unitVars, depVars>>

FlowNext ==
    \/ DiscoverRustFiles
    \/ SubmitFiles
    \/ \E i \in DOMAIN ftask : StartFileTask(i)
    \/ \E i \in DOMAIN ftask : FinishFileTask(i)
    \/ \E i \in DOMAIN ftask : MergeFileResult(i)
    \/ FilePoolExit
    \/ AnalyzeSystemPatterns
    \/ ComputeMetrics

\* ------------------------------------------------------------------
\* ControlFlowVisualizer.export_function_json
\* ------------------------------------------------------------------
\* complexity_metrics.get(key, 0)
MetricOr0(func, key) ==
    IF func.complexity_metrics = EmptyDict THEN 0 ELSE func.complexity_metrics[key]

\* _generate_function_summary: the characteristics its sentence joins
FunctionSummary(func) ==
    LET cyclomatic == MetricOr0(func, "cyclomatic_complexity")
        async_complexity == MetricOr0(func, "async_complexity")
        error_complexity == MetricOr0(func, "error_handling_complexity")
    IN  (IF cyclomatic > 10 THEN <<"high complexity">>
         ELSE IF cyclomatic > 5 THEN <<"moderate complexity">>
         ELSE <<"low complexity">>)
        \o (IF func.async_function /\ async_complexity > 3
            THEN <<"complex async coordination">>
            ELSE IF func.async_function /\ async_complexity > 0
            THEN <<"async operations">> ELSE <<>>)
        \o (IF error_complexity > 3 THEN <<"comprehensive error handling">>
            ELSE IF error_complexity > 0 THEN <<"error handling">> ELSE <<>>)
        \o (IF CountNodes(func, {"loop"}) > 0 THEN <<"iterative logic">> ELSE <<>>)
        \o (IF CountNodes(func, {"condition"}) > 0 THEN <<"conditional logic">> ELSE <<>>)
        \o (IF CountNodes(func, {"state_transition"}) > 0
            THEN <<"state management">> ELSE <<>>)

\* `for node_id, node in func_flow.nodes.items()`: one record per node
ExportNodes(func) ==
    [k \in 1..Len(func.nodes.keys) |->
        LET node == func.nodes.map[func.nodes.keys[k]]
        IN  [id |-> func.nodes.keys[k], type |-> node.node_type, label |-> node.label,
             source_line |-> node.source_line, source_file |-> node.source_file,
             execution_pattern |-> None, metadata |-> EmptyDict]]

\* ExportEdges keeping only the edges of type "control".
ExportEdgesControlOnly(func) ==
    LET kept == SelectSeq(func.edges, LAMBDA edge : edge.edge_type = "control")
    IN  [k \in 1..Len(kept) |->
            [source |-> kept[k].source, target |-> kept[k].target,
             label |-> kept[k].label, condition |-> None,
             edge_type |-> kept[k].edge_type, probability |-> None]]

\* `for edge in func_flow.edges`: one record per edge
ExportEdges(func) ==
    [k \in 1..Len(func.edges) |->
        [source |-> func.edges[k].source, target |-> func.edges[k].target,
         label |-> func.edges[k].label, condition |-> None,
         edge_type |-> func.edges[k].edge_type, probability |-> None]]

\* What export_function_json returns: {} for a name that is not in
\* function_flows, else the interchange object of the function.
ExportFunctionJson(flows, function_name) ==
    IF ~DictHas(flows, function_name) THEN EmptyDict
    ELSE LET func_flow == flows.map[function_name]
         IN  [function_name |-> func_flow.name,
              file_path |-> func_flow.file_path,
              location |-> [start_line |-> func_flow.start_line,
                            end_line |-> func_flow.end_line],
              properties |-> [is_async |-> func_flow.async_function, return_type |-> None],
              complexity_metrics |-> func_flow.complexity_metrics,
              nodes |-> ExportNodes(func_flow),
              edges |-> ExportEdges(func_flow),
              patterns |-> [error_paths |-> <<>>, async_spawn_points |-> <<>>,
                            state_transitions |-> <<>>],
              analysis_summary |-> FunctionSummary(func_flow)]

\* the names control_flow_command may be given with --function
FunctionNames == {"load", "run", "tick", "open", "size"}

\* control_flow_command --function --formats json, for a name that is a key
\* of function_flows: the visualizer exports the named function and the
\* command returns
CallExportFunctionJson(function_name) ==
    /\ fpc = "done"
    /\ DictHas(function_flows, function_name)
    /\ exported' = [format |-> "function_json", function_name |-> function_name,
                    value |-> ExportFunctionJson(function_flows, function_name)]
    /\ fpc' = "returned"
    /\ UNCHANGED <<manifests, dpc, workspace_manifest, crate_paths, dtask, dresult, crates,
                   agent_specs, dependency_graph, files, rust_files, ftask, fresult,
                   function_flows, system_flow, buildVars, unitVars>>

\* control_flow_command --function for a name that is no key of
\* function_flows: "Function ... not found", sys.exit(1); nothing is exported
FunctionNotFoundExit(function_name) ==
    /\ fpc = "done"
    /\ ~DictHas(function_flows, function_name)
    /\ fpc' = "exit"
    /\ UNCHANGED <<files, rust_files, ftask, fresult, function_flows, system_flow,
                   buildVars, unitVars, depVars>>

ControlFlowCommandNext ==
    \/ FlowNext
    \/ \E function_name \in FunctionNames : CallExportFunctionJson(function_name)
    \/ \E function_name \in FunctionNames : FunctionNotFoundExit(function_name)

\* ------------------------------------------------------------------
\* control_flow_graph_visualizer.py: the system-level exports of
\* ControlFlowVisualizer
\* ------------------------------------------------------------------
RECURSIVE SumSeq(_)
SumSeq(s) == IF s = <<>> THEN 0 ELSE Head(s) + SumSeq(Tail(s))

Range(s) == {s[k] : k \in DOMAIN s}

\* `for func_flow in self.analyzer.function_flows.values()`
Complexities(flows) ==
    [k \in 1..Len(flows.keys) |->
        MetricOr0(flows.map[flows.keys[k]], "cyclomatic_complexity")]

\* _generate_complexity_distribution: {} for an empty map; the mean is the
\* quotient sum / len, kept as its two terms. The subset is taken above the
\* literal 10.
GenerateComplexityDistribution(flows) ==
    LET complexities == Complexities(flows)
    IN  IF complexities = <<>> THEN EmptyDict
        ELSE [mean |-> [sum |-> SumSeq(complexities), len |-> Len(complexities)],
              max |-> CHOOSE m \in Range(complexities) :
                            \A x \in Range(complexities) : x <= m,
              min |-> CHOOSE m \in Range(complexities) :
                            \A x \in Range(complexities) : m <= x,
              high_complexity_functions |->
                  SelectSeq([k \in 1..Len(flows.keys) |-> flows.map[flows.keys[k]].name],
                            LAMBDA name : MetricOr0(flows.map[name],
                                                    "cyclomatic_complexity") > 10)]

\* The values AnalysisConfig.max_complexity_threshold is given: the default
\* 15 and two smaller ones that validate() accepts (>= 1).
ComplexityThresholds == {1, 2, 15}

\* export_system_json, under a configuration with the given threshold; the
\* visualizer is constructed from the analyzer alone and reads no
\* configuration.
CallExportSystemJson(max_complexity_threshold) ==
    /\ fpc = "done"
    /\ exported' =
        [format |-> "system_json",
         max_complexity_threshold |-> max_complexity_threshold,
         value |->
            [system_overview |->
                [total_functions |-> Len(function_flows.keys),
                 total_components |-> Len(system_flow.component_interactions.keys),
                 async_patterns |-> Len(system_flow.async_coordination_patterns),
                 error_chains |-> 0],
             component_interactions |-> system_flow.component_interactions,
             async_coordination_patterns |-> system_flow.async_coordination_patterns,
             complexity_distribution |-> GenerateComplexityDistribution(function_flows)]]
    /\ UNCHANGED <<manifests, dpc, workspace_manifest, crate_paths, dtask, dresult, crates,
                   agent_specs, dependency_graph, flowVars, buildVars, unitVars>>

\* the node records of generate_system_interactive_html: one per key of
\* component_interactions
SystemPayloadNodes(interactions) ==
    [k \in 1..Len(interactions.keys) |->
        [id |-> interactions.keys[k], label |-> interactions.keys[k], type |-> "component"]]

\* the edge records of generate_system_interactive_html: one per source and
\* target, in the order of the keys and of each list
SystemPayloadEdges(interactions) ==
    LET EdgesOf(source) ==
            [t \in 1..Len(interactions.map[source]) |->
                [id |-> <<source, "-", interactions.map[source][t]>>,
                 source |-> source,
                 target |-> interactions.map[source][t],
                 edge_type |-> "interaction"]]
        RECURSIVE From(_)
        From(k) == IF k > Len(interactions.keys) THEN <<>>
                   ELSE EdgesOf(interactions.keys[k]) \o From(k + 1)
    IN  From(1)

\* generate_system_interactive_html: the payload handed to the template
CallGenerateSystemInteractiveHtml ==
    /\ fpc = "done"
    /\ exported' =
        [format |-> "system_interactive_html",
         value |-> [nodes |-> SystemPayloadNodes(system_flow.component_interactions),
                    edges |-> SystemPayloadEdges(system_flow.component_interactions)]]
    /\ UNCHANGED <<manifests, dpc, workspace_manifest, crate_paths, dtask, dresult, crates,
                   agent_specs, dependency_graph, flowVars, buildVars, unitVars>>

SystemExportNext ==
    \/ FlowNext
    \/ \E max_complexity_threshold \in ComplexityThresholds :
            CallExportSystemJson(max_complexity_threshold)
    \/ CallGenerateSystemInteractiveHtml

\* ------------------------------------------------------------------
\* _classify_async_pattern on its own
\* ------------------------------------------------------------------
MaxPoints == 7

UnitOff == /\ u_pc = "off" /\ u_await = <<>> /\ u_spawn = <<>> /\ u_out = None

\* The two lists of node ids of a call: any lengths up to MaxPoints, the ids
\* of either of two functions.
UnitInit ==
    /\ u_pc = "call"
    /\ u_await \in {[k \in 1..n |-> LineId(name, k)] :
                        n \in 0..MaxPoints, name \in {"run", "tick"}}
    /\ u_spawn \in {[k \in 1..n |-> LineId(name, k)] :
                        n \in 0..MaxPoints, name \in {"run", "tick"}}
    /\ u_out = None

CallClassifyAsyncPattern ==
    /\ u_pc = "call"
    /\ u_out' = ClassifyAsyncPattern(u_await, u_spawn)
    /\ u_pc' = "returned"
    /\ UNCHANGED <<u_await, u_spawn, flowVars, buildVars, depVars>>

\* ------------------------------------------------------------------
\* DependencyAnalyzer._analyze_single_crate and _categorize_crate
\* ------------------------------------------------------------------
\* CategorizeCrate falling back to "unknown", as the component lookup does,
\* instead of "general".
CategorizeCrateUnknownDefault(name, description) ==
    LET name_lower == Lower[name]
    IN  IF Contains("store", name_lower) \/ Contains("storage", name_lower) THEN "storage"
        ELSE IF Contains("auth", name_lower) \/ Contains("security", name_lower)
             THEN "security"
        ELSE IF Contains("kernel", name_lower) \/ Contains("core", name_lower) THEN "core"
        ELSE IF Contains("runtime", name_lower) \/ Contains("agent", name_lower)
             THEN "runtime"
        ELSE IF Contains("cli", name_lower) \/ Contains("tools", name_lower) THEN "tools"
        ELSE IF Contains("llm", name_lower) \/ Contains("gateway", name_lower) THEN "llm"
        ELSE IF Contains("raft", name_lower) THEN "consensus"
        ELSE IF Contains("orchestration", name_lower) THEN "orchestration"
        ELSE IF Contains("bus", name_lower) THEN "messaging"
        ELSE "unknown"

CategorizeCrate(name, description) ==
    LET name_lower == Lower[name]
    IN  IF Contains("store", name_lower) \/ Contains("storage", name_lower) THEN "storage"
        ELSE IF Contains("auth", name_lower) \/ Contains("security", name_lower)
             THEN "security"
        ELSE IF Contains("kernel", name_lower) \/ Contains("core", name_lower) THEN "core"
        ELSE IF Contains("runtime", name_lower) \/ Contains("agent", name_lower)
             THEN "runtime"
        ELSE IF Contains("cli", name_lower) \/ Contains("tools", name_lower) THEN "tools"
        ELSE IF Contains("llm", name_lower) \/ Contains("gateway", name_lower) THEN "llm"
        ELSE IF Contains("raft", name_lower) THEN "consensus"
        ELSE IF Contains("orchestration", name_lower) THEN "orchestration"
        ELSE IF Contains("bus", name_lower) THEN "messaging"
        ELSE "general"

\* d.get(key, default), where None stands for an absent key
GetOr(value, default) == IF value = None THEN default ELSE value

CrateInfo(name, path, version, description, category) ==
    [name |-> name, path |-> path, version |-> version,
     description |-> description, category |-> category,
     dependencies |-> EmptyDict, dev_dependencies |-> EmptyDict,
     workspace_dependencies |-> {}, external_dependencies |-> {}]

\* ParseDependency without the `else` of the path test: an entry with a path
\* is recorded as external too.
ParseDependencyNoElse(crate_info, dep) ==
    IF dep.table /\ dep.path
    THEN [crate_info EXCEPT
            !.workspace_dependencies = @ \cup {dep.name},
            !.external_dependencies = @ \cup {dep.name},
            !.dependencies = DictPut(@, dep.name, GetOr(dep.version, "path"))]
    ELSE [crate_info EXCEPT
            !.external_dependencies = @ \cup {dep.name},
            !.dependencies = DictPut(@, dep.name,
                                IF dep.table THEN GetOr(dep.version, "workspace")
                                ELSE dep.version)]

\* One entry of [dependencies]: a table with a path, a table without, a plain string.
ParseDependency(crate_info, dep) ==
    IF dep.table /\ dep.path
    THEN [crate_info EXCEPT
            !.workspace_dependencies = @ \cup {dep.name},
            !.dependencies = DictPut(@, dep.name, GetOr(dep.version, "path"))]
    ELSE IF dep.table
    THEN [crate_info EXCEPT
            !.external_dependencies = @ \cup {dep.name},
            !.dependencies = DictPut(@, dep.name, GetOr(dep.version, "workspace"))]
    ELSE [crate_info EXCEPT
            !.external_dependencies = @ \cup {dep.name},
            !.dependencies = DictPut(@, dep.name, dep.version)]

\* One entry of [dev-dependencies].
ParseDevDependency(crate_info, dep) ==
    [crate_info EXCEPT !.dev_dependencies =
        DictPut(@, dep.name,
                IF dep.table /\ dep.path THEN GetOr(dep.version, "path")
                ELSE IF dep.table THEN GetOr(dep.version, "workspace")
                ELSE dep.version)]

RECURSIVE ParseDependencies(_, _, _)
ParseDependencies(crate_info, deps, k) ==
    IF k > Len(deps) THEN crate_info
    ELSE ParseDependencies(ParseDependency(crate_info, deps[k]), deps, k + 1)

RECURSIVE ParseDevDependencies(_, _, _)
ParseDevDependencies(crate_info, deps, k) ==
    IF k > Len(deps) THEN crate_info
    ELSE ParseDevDependencies(ParseDevDependency(crate_info, deps[k]), deps, k + 1)

\* workspace.package.version of the workspace manifest, '0.0.0' by default
WorkspaceVersion(ws_manifest) ==
    IF ws_manifest = Nothing THEN "0.0.0" ELSE GetOr(ws_manifest.version, "0.0.0")

\* AnalyzeSingleCrate returning, for a directory whose manifest is missing or
\* does not parse, a CrateInfo named after the directory instead of None.
AnalyzeSingleCrateDefaulted(crate_path, dir, ws_manifest) ==
    IF dir.kind # "parsed"
    THEN CrateInfo(BaseName[crate_path], crate_path, "0.0.0", "",
                   CategorizeCrate(BaseName[crate_path], ""))
    ELSE ParseDependencies(
            CrateInfo(GetOr(dir.manifest.name, BaseName[crate_path]), crate_path,
                      GetOr(dir.manifest.version, "0.0.0"),
                      GetOr(dir.manifest.description, ""),
                      CategorizeCrate(GetOr(dir.manifest.name, BaseName[crate_path]), "")),
            dir.manifest.dependencies, 1)

\* The CrateInfo of a member directory, None when it has no manifest or
\* reading the manifest raises.
AnalyzeSingleCrate(crate_path, dir, ws_manifest) ==
    IF dir.kind # "parsed" THEN Nothing
    ELSE LET name == GetOr(dir.manifest.name, BaseName[crate_path])
             description == GetOr(dir.manifest.description, "")
             crate_info == CrateInfo(name, crate_path,
                              GetOr(dir.manifest.version, WorkspaceVersion(ws_manifest)),
                              description, CategorizeCrate(name, description))
         IN  ParseDevDependencies(
                ParseDependencies(crate_info, dir.manifest.dependencies, 1),
                dir.manifest.dev_dependencies, 1)

\* ------------------------------------------------------------------
\* DependencyAnalyzer._load_agent_specs and _build_dependency_graph
\* ------------------------------------------------------------------
AgentSpec(agent_config) ==
    [name |-> GetOr(agent_config.name, ""),
     domain |-> GetOr(agent_config.domain, ""),
     priority |-> GetOr(agent_config.priority, "medium"),
     capabilities |-> agent_config.capabilities]

\* agent_specs after the agents of config/agents.toml are appended; an absent
\* file, or one that does not parse, adds nothing.
LoadAgentSpecs(specs, agents_config) ==
    IF agents_config.kind # "parsed" THEN specs
    ELSE specs \o [k \in 1..Len(agents_config.agents) |-> AgentSpec(agents_config.agents[k])]

\* InternalDeps without the `if dep_name in self.crates` test.
InternalDepsUnchecked(all_crates, crate_info) == crate_info.workspace_dependencies

\* the workspace dependencies of a crate that are crates themselves
InternalDeps(all_crates, crate_info) ==
    {dep_name \in crate_info.workspace_dependencies : DictHas(all_crates, dep_name)}

RECURSIVE BuildGraphFrom(_, _, _)
BuildGraphFrom(graph, all_crates, n) ==
    IF n > Len(all_crates.keys) THEN graph
    ELSE LET crate_name == all_crates.keys[n]
             deps == InternalDeps(all_crates, all_crates.map[crate_name])
         IN  BuildGraphFrom(
                IF deps = {} THEN graph
                ELSE DictPut(graph, crate_name,
                        (IF DictHas(graph, crate_name) THEN graph.map[crate_name] ELSE {})
                        \cup deps),
                all_crates, n + 1)

BuildDependencyGraph(graph, all_crates) == BuildGraphFrom(graph, all_crates, 1)

\* ------------------------------------------------------------------
\* DependencyVisualizer
\* ------------------------------------------------------------------
\* sum(len(deps) for deps in dependency_graph.values())
RECURSIVE TotalDeps(_, _)
TotalDeps(graph, n) ==
    IF n > Len(graph.keys) THEN 0
    ELSE Cardinality(graph.map[graph.keys[n]]) + TotalDeps(graph, n + 1)

\* The orders in which one call may iterate each set of a dict of sets: a set's
\* iteration order is not fixed by its content.
SetOrders(d) ==
    {f \in [DOMAIN d.map -> UNION {Enumerations(d.map[k]) : k \in DOMAIN d.map}] :
        \A k \in DOMAIN d.map : f[k] \in Enumerations(d.map[k])}

\* the lists of a dict of lists, one after the other in key order, each entry
\* with its key
RECURSIVE Flatten(_, _, _)
Flatten(keys, lists, n) ==
    IF n > Len(keys) THEN <<>>
    ELSE [k \in 1..Len(lists[keys[n]]) |-> <<keys[n], lists[keys[n]][k]>>]
         \o Flatten(keys, lists, n + 1)

\* category_nodes: category -> the crates of that category, both in crates order
RECURSIVE CategoryNodes(_, _, _)
CategoryNodes(groups, all_crates, n) ==
    IF n > Len(all_crates.keys) THEN groups
    ELSE LET category == all_crates.map[all_crates.keys[n]].category
             sofar == IF DictHas(groups, category) THEN groups.map[category] ELSE <<>>
         IN  CategoryNodes(DictPut(groups, category, Append(sofar, all_crates.keys[n])),
                           all_crates, n + 1)

\* generate_mermaid_graph: the lines of the diagram that depend on the analysis
\* (the fixed "graph TD" and classDef lines are left out), each line as the
\* values interpolated into it; dep_order is the order the call iterates each
\* dependency set in.
MermaidGraph(all_crates, graph, specs, dep_order) ==
    LET groups == CategoryNodes(EmptyDict, all_crates, 1)
        edges == Flatten(graph.keys, dep_order, 1)
    IN  [k \in 1..Len(all_crates.keys) |->
            [line |-> "node", id |-> Underscored[all_crates.keys[k]],
             label |-> <<all_crates.keys[k], all_crates.map[all_crates.keys[k]].category>>]]
        \o [k \in 1..Len(edges) |->
            [line |-> "edge", source |-> Underscored[edges[k][1]],
             target |-> Underscored[edges[k][2]]]]
        \o [k \in 1..Len(groups.keys) |->
            [line |-> "class",
             nodes |-> [m \in 1..Len(groups.map[groups.keys[k]]) |->
                            Underscored[groups.map[groups.keys[k]][m]]],
             category |-> groups.keys[k]]]
        \o << [line |-> "metadata", total_crates |-> Len(all_crates.keys),
               total_dependencies |-> TotalDeps(graph, 1),
               total_agents |-> Len(specs)] >>

\* _generate_analysis_summary: the values its sentence interpolates; the most
\* connected crate is the first of sorted(..., key=len, reverse=True), a stable
\* sort, so the first in graph order among those with the most dependencies.
AnalysisSummary(all_crates, graph) ==
    LET most == {k \in 1..Len(graph.keys) :
                    \A m \in 1..Len(graph.keys) :
                        Cardinality(graph.map[graph.keys[m]])
                            <= Cardinality(graph.map[graph.keys[k]])}
    IN  [total_crates |-> Len(all_crates.keys),
         total_deps |-> TotalDeps(graph, 1),
         top_crate |-> IF most = {} THEN None
                       ELSE graph.keys[CHOOSE k \in most : \A m \in most : k <= m]]

\* category_counts, in first-seen order
RECURSIVE CategoryCounts(_, _, _)
CategoryCounts(counts, all_crates, n) ==
    IF n > Len(all_crates.keys) THEN counts
    ELSE LET category == all_crates.map[all_crates.keys[n]].category
         IN  CategoryCounts(
                DictPut(counts, category,
                        (IF DictHas(counts, category) THEN counts.map[category] ELSE 0) + 1),
                all_crates, n + 1)

\* export_json; ws_order, ext_order and dep_order are the orders list(...) gives
\* the sets of each crate and of the graph.
ExportJson(all_crates, graph, specs, ws_order, ext_order, dep_order) ==
    [workspace_info |-> [total_crates |-> Len(all_crates.keys),
                         total_agents |-> Len(specs),
                         total_dependencies |-> TotalDeps(graph, 1)],
     crates |-> [keys |-> all_crates.keys,
                 map |-> [n \in DOMAIN all_crates.map |->
                    [name |-> all_crates.map[n].name,
                     path |-> all_crates.map[n].path,
                     version |-> all_crates.map[n].version,
                     description |-> all_crates.map[n].description,
                     category |-> all_crates.map[n].category,
                     workspace_dependencies |-> ws_order[n],
                     external_dependencies |-> ext_order[n],
                     dependency_count |-> Len(all_crates.map[n].dependencies.keys),
                     dev_dependency_count |-> Len(all_crates.map[n].dev_dependencies.keys)]]],
     agents |-> specs,
     dependency_graph |-> [keys |-> graph.keys, map |-> dep_order],
     category_distribution |-> CategoryCounts(EmptyDict, all_crates, 1),
     analysis_summary |-> AnalysisSummary(all_crates, graph)]

\* generate_interactive_html: network_data
NetworkData(all_crates, graph, dep_order) ==
    LET edges == Flatten(graph.keys, dep_order, 1)
    IN  [nodes |-> [k \in 1..Len(all_crates.keys) |->
            LET crate_info == all_crates.map[all_crates.keys[k]]
            IN  [id |-> all_crates.keys[k], label |-> all_crates.keys[k],
                 category |-> crate_info.category, version |-> crate_info.version,
                 description |-> crate_info.description,
                 workspace_deps |-> Cardinality(crate_info.workspace_dependencies),
                 external_deps |-> Cardinality(crate_info.external_dependencies)]],
         edges |-> [k \in 1..Len(edges) |->
            [source |-> edges[k][1], target |-> edges[k][2], type |-> "dependency"]]]

\* ------------------------------------------------------------------
\* DependencyAnalyzer.analyze_workspace
\* ------------------------------------------------------------------
Dep(name, table, path, version) ==
    [name |-> name, table |-> table, path |-> path, version |-> version]

\* The manifests a member directory may hold.
Manifests ==
    { [name |-> "toka-kernel", version |-> "0.2.1", description |-> "Deterministic kernel",
       dependencies |-> << Dep("serde", FALSE, FALSE, "1.0") >>,
       dev_dependencies |-> <<>>],
      [name |-> "toka-runtime", version |-> None, description |-> None,
       dependencies |-> << Dep("toka-kernel", TRUE, TRUE, None),
                           Dep("tokio", TRUE, FALSE, "1") >>,
       dev_dependencies |-> <<>>],
      [name |-> None, version |-> "0.2.1", description |-> "Persistent storage drivers",
       dependencies |-> << Dep("toka-kernel", TRUE, TRUE, "0.2"),
                           Dep("toka-ghost", TRUE, TRUE, None),
                           Dep("serde", TRUE, FALSE, None) >>,
       dev_dependencies |-> << Dep("tokio", FALSE, FALSE, "1"),
                               Dep("toka-types", TRUE, TRUE, None) >>],
      [name |-> "toka-types", version |-> "0.1.0",
       description |-> "Persistent storage drivers",
       dependencies |-> << Dep("toka-runtime", TRUE, TRUE, None),
                           Dep("toka-kernel", TRUE, FALSE, None) >>,
       dev_dependencies |-> <<>>],
      [name |-> "toka-types", version |-> None, description |-> None,
       dependencies |-> <<>>, dev_dependencies |-> <<>>],
      [name |-> "toka-runtime", version |-> "0.2.1", description |-> None,
       dependencies |-> << Dep("serde", FALSE, FALSE, "1.0") >>,
       dev_dependencies |-> <<>>] }

Members == <<"crates/toka-kernel", "crates/toka-runtime", "crates/toka-store-core">>

\* What a member directory may be: absent, without a manifest, with one that
\* does not parse, with one that does.
Dirs ==
    {[kind |-> k, manifest |-> None] : k \in {"no_dir", "no_manifest", "malformed"}}
    \cup {[kind |-> "parsed", manifest |-> m] : m \in Manifests}

\* What config/agents.toml may be.
AgentConfigs ==
    { [kind |-> "absent", agents |-> <<>>],
      [kind |-> "parsed",
       agents |-> << [name |-> "planner", domain |-> "orchestration", priority |-> None,
                      capabilities |-> <<"plan">>] >>] }

\* What the workspace root's Cargo.toml may be.
RootManifests ==
    { [kind |-> "absent", members |-> <<>>, version |-> None],
      [kind |-> "parsed", members |-> Members, version |-> None],
      [kind |-> "parsed", members |-> Members, version |-> "0.3.0"] }

DepOff ==
    /\ manifests = <<>> /\ dpc = "off" /\ workspace_manifest = Nothing
    /\ crate_paths = <<>> /\ dtask = <<>> /\ dresult = <<>> /\ crates = EmptyDict
    /\ agent_specs = <<>> /\ dependency_graph = EmptyDict /\ exported = Nothing

\* The workspaces a dependency analysis may run on: with or without a root
\* manifest; a root manifest with a workspace version is paired with members
\* that inherit it.
DepWorkspace ==
    /\ manifests \in [root : RootManifests, dirs : [{Members[k] : k \in 1..Len(Members)} -> Dirs],
                      agents : AgentConfigs]
    /\ manifests.root.version # None =>
            /\ manifests.agents.kind = "absent"
            /\ \A m \in DOMAIN manifests.dirs :
                    manifests.dirs[m].kind = "parsed" /\ manifests.dirs[m].manifest.version = None

\* DependencyAnalyzer.__init__
DepFresh ==
    /\ workspace_manifest = Nothing
    /\ crate_paths = <<>>
    /\ dtask = <<>>
    /\ dresult = <<>>
    /\ crates = EmptyDict
    /\ agent_specs = <<>>
    /\ dependency_graph = EmptyDict
    /\ exported = Nothing

\* dependency_command on a workspace
DepInit == DepWorkspace /\ dpc = "load" /\ DepFresh

\* _load_workspace_manifest reads the root manifest
LoadWorkspaceManifest ==
    /\ dpc = "load" /\ manifests.root.kind = "parsed"
    /\ workspace_manifest' = [members |-> manifests.root.members,
                              version |-> manifests.root.version]
    /\ dpc' = "submit"
    /\ UNCHANGED <<manifests, crate_paths, dtask, dresult, crates, agent_specs,
                   dependency_graph, exported, flowVars, buildVars, unitVars>>

\* WorkspaceManifestNotFound logging the missing manifest and going on, the
\* crate pool finding no workspace_manifest to list members from.
WorkspaceManifestSkipped ==
    /\ dpc = "load" /\ manifests.root.kind = "absent"
    /\ dpc' = "agents"
    /\ UNCHANGED <<manifests, workspace_manifest, crate_paths, dtask, dresult, crates,
                   agent_specs, dependency_graph, exported, flowVars, buildVars, unitVars>>

\* _load_workspace_manifest raises FileNotFoundError and analyze_workspace ends
WorkspaceManifestNotFound ==
    /\ dpc = "load" /\ manifests.root.kind = "absent"
    /\ dpc' = "raised"
    /\ UNCHANGED <<manifests, workspace_manifest, crate_paths, dtask, dresult, crates,
                   agent_specs, dependency_graph, exported, flowVars, buildVars, unitVars>>

\* _analyze_crates_parallel: one future per member directory that exists
SubmitCrates ==
    /\ dpc = "submit"
    /\ crate_paths' = SelectSeq(workspace_manifest.members,
                                LAMBDA m : manifests.dirs[m].kind # "no_dir")
    /\ dtask' = [i \in 1..Len(crate_paths') |-> "pending"]
    /\ dresult' = [i \in 1..Len(crate_paths') |-> Nothing]
    /\ dpc' = "pool"
    /\ UNCHANGED <<manifests, workspace_manifest, crates, agent_specs,
                   dependency_graph, exported, flowVars, buildVars, unitVars>>

StartCrateTask(i) ==
    /\ dpc = "pool" /\ dtask[i] = "pending"
    /\ \A j \in 1..(i - 1) : dtask[j] # "pending"
    /\ Cardinality({j \in DOMAIN dtask : dtask[j] = "running"}) < MaxConcurrentAnalyzers
    /\ dtask' = [dtask EXCEPT ![i] = "running"]
    /\ UNCHANGED <<manifests, dpc, workspace_manifest, crate_paths, dresult, crates,
                   agent_specs, dependency_graph, exported, flowVars, buildVars, unitVars>>

\* the worker returns from _analyze_single_crate
FinishCrateTask(i) ==
    /\ dpc = "pool" /\ dtask[i] = "running"
    /\ dtask' = [dtask EXCEPT ![i] = "done"]
    /\ dresult' = [dresult EXCEPT ![i] =
            AnalyzeSingleCrate(crate_paths[i], manifests.dirs[crate_paths[i]],
                               workspace_manifest)]
    /\ UNCHANGED <<manifests, dpc, workspace_manifest, crate_paths, crates,
                   agent_specs, dependency_graph, exported, flowVars, buildVars, unitVars>>

\* `if crate_info: self.crates[crate_info.name] = crate_info`
MergeCrate(all_crates, crate_info) ==
    IF crate_info = Nothing THEN all_crates
    ELSE DictPut(all_crates, crate_info.name, crate_info)

\* as_completed yields a finished future
MergeCrateResult(i) ==
    /\ dpc = "pool" /\ dtask[i] = "done"
    /\ crates' = MergeCrate(crates, dresult[i])
    /\ dtask' = [dtask EXCEPT ![i] = "merged"]
    /\ UNCHANGED <<manifests, dpc, workspace_manifest, crate_paths, dresult,
                   agent_specs, dependency_graph, exported, flowVars, buildVars, unitVars>>

CratePoolExit ==
    /\ dpc = "pool"
    /\ \A i \in DOMAIN dtask : dtask[i] = "merged"
    /\ dpc' = "agents"
    /\ UNCHANGED <<manifests, workspace_manifest, crate_paths, dtask, dresult, crates,
                   agent_specs, dependency_graph, exported, flowVars, buildVars, unitVars>>

ReadAgentSpecs ==
    /\ dpc = "agents"
    /\ agent_specs' = LoadAgentSpecs(agent_specs, manifests.agents)
    /\ dpc' = "graph"
    /\ UNCHANGED <<manifests, workspace_manifest, crate_paths, dtask, dresult, crates,
                   dependency_graph, exported, flowVars, buildVars, unitVars>>

\* _build_dependency_graph, then analyze_workspace returns
BuildGraph ==
    /\ dpc = "graph"
    /\ dependency_graph' = BuildDependencyGraph(dependency_graph, crates)
    /\ dpc' = "done"
    /\ UNCHANGED <<manifests, workspace_manifest, crate_paths, dtask, dresult, crates,
                   agent_specs, exported, flowVars, buildVars, unitVars>>

\* the sets of each crate, as a dict of sets
CrateSets(all_crates, field) ==
    [keys |-> all_crates.keys,
     map |-> [n \in DOMAIN all_crates.map |-> all_crates.map[n][field]]]

GenerateMermaidGraph ==
    /\ dpc = "done"
    /\ \E dep_order \in SetOrders(dependency_graph) :
        exported' = [format |-> "mermaid",
                     value |-> MermaidGraph(crates, dependency_graph, agent_specs, dep_order)]
    /\ UNCHANGED <<manifests, dpc, workspace_manifest, crate_paths, dtask, dresult, crates,
                   agent_specs, dependency_graph, flowVars, buildVars, unitVars>>

CallExportJson ==
    /\ dpc = "done"
    /\ \E ws_order \in SetOrders(CrateSets(crates, "workspace_dependencies")),
          ext_order \in SetOrders(CrateSets(crates, "external_dependencies")),
          dep_order \in SetOrders(dependency_graph) :
        exported' = [format |-> "json",
                     value |-> ExportJson(crates, dependency_graph, agent_specs,
                                          ws_order, ext_order, dep_order)]
    /\ UNCHANGED <<manifests, dpc, workspace_manifest, crate_paths, dtask, dresult, crates,
                   agent_specs, dependency_graph, flowVars, buildVars, unitVars>>

GenerateInteractiveHtml ==
    /\ dpc = "done"
    /\ \E dep_order \in SetOrders(dependency_graph) :
        exported' = [format |-> "interactive",
                     value |-> NetworkData(crates, dependency_graph, dep_order)]
    /\ UNCHANGED <<manifests, dpc, workspace_manifest, crate_paths, dtask, dresult, crates,
                   agent_specs, dependency_graph, flowVars, buildVars, unitVars>>

DepNext ==
    \/ LoadWorkspaceManifest
    \/ WorkspaceManifestNotFound
    \/ SubmitCrates
    \/ \E i \in DOMAIN dtask : StartCrateTask(i)
    \/ \E i \in DOMAIN dtask : FinishCrateTask(i)
    \/ \E i \in DOMAIN dtask : MergeCrateResult(i)
    \/ CratePoolExit
    \/ ReadAgentSpecs
    \/ BuildGraph
    \/ GenerateMermaidGraph
    \/ CallExportJson
    \/ GenerateInteractiveHtml

\* ------------------------------------------------------------------
\* cli.combined_command: control_flow_command, then dependency_command
\* ------------------------------------------------------------------
\* A combined run's workspace: source files that are unreadable or hold run(),
\* beside a main.rs holding load(); two member directories whose manifest is
\* missing, malformed, or names toka-kernel or toka-runtime, the third member
\* absent; or no root manifest at all.
CombinedInit ==
    /\ FlowInit
    /\ files["src/main.rs"] = Readable(<<"pub fn load() {", "    let x = 1;", "}">>)
    /\ \A p \in SourcePaths \ {"src/main.rs"} :
            files[p] \in {Unreadable,
                          Readable(<<"pub async fn run() {", "    let v = fetch().await;",
                                     "    load();", "}", "">>)}
    /\ DepWorkspace
    /\ manifests.root.version = None
    /\ manifests.agents.kind = "absent"
    /\ manifests.root.kind = "absent" =>
            \A m \in DOMAIN manifests.dirs : manifests.dirs[m].kind = "no_dir"
    /\ manifests.root.kind = "parsed" =>
            /\ manifests.dirs["crates/toka-store-core"].kind = "no_dir"
            /\ \A m \in {"crates/toka-kernel", "crates/toka-runtime"} :
                    \/ manifests.dirs[m].kind \in {"no_manifest", "malformed"}
                    \/ /\ manifests.dirs[m].kind = "parsed"
                       /\ manifests.dirs[m].manifest.name \in {"toka-kernel", "toka-runtime"}
    /\ dpc = "queued"
    /\ DepFresh

\* args carries function = None: control_flow_command has returned, nothing
\* exported per function, and dependency_command starts
DependencyCommand ==
    /\ fpc = "done" /\ dpc = "queued"
    /\ dpc' = "load"
    /\ UNCHANGED <<manifests, workspace_manifest, crate_paths, dtask, dresult, crates,
                   agent_specs, dependency_graph, exported, flowVars, buildVars, unitVars>>

\* args is the Namespace the `combined` subparser gives, which has no
\* attribute `function`: `if args.function:` raises AttributeError once the
\* flow analysis is over, and dependency_command is never called
ControlFlowCommandRaises ==
    /\ fpc = "done" /\ dpc = "queued"
    /\ dpc' = "not_run"
    /\ UNCHANGED <<manifests, workspace_manifest, crate_paths, dtask, dresult, crates,
                   agent_specs, dependency_graph, exported, flowVars, buildVars, unitVars>>

CombinedNext == FlowNext \/ DependencyCommand \/ ControlFlowCommandRaises \/ DepNext

\* ------------------------------------------------------------------
\* Specifications
\* ------------------------------------------------------------------
InitBuild == BuildInit /\ FlowOff /\ UnitOff /\ DepOff
SpecBuild == InitBuild /\ [][BuildNext]_vars

InitFlow == FlowInit /\ BuildOff /\ UnitOff /\ DepOff
SpecFlow == InitFlow /\ [][FlowNext]_vars

SpecFlowCommand == InitFlow /\ [][ControlFlowCommandNext]_vars

SpecSystemExport == InitFlow /\ [][SystemExportNext]_vars

\* A workspace of one source file of any text up to MaxFileLines lines, beside
\* a generated file under a target/ directory, a build script and a README.
MaxFileLines == 4

TreeLines ==
    {"fn size(&self) -> usize;", "fn open() {", "    let x = 1;", "    if v > 0 {",
     "    }", "}"}

InitSourceTree ==
    /\ \E content \in UNION {[1..n -> TreeLines] : n \in 1..MaxFileLines} :
            files = [p \in {"src/main.rs", "crates/toka-kernel/target/gen.rs",
                            "crates/toka-auth/build.rs", "crates/toka-kernel/README.md"} |->
                        IF p = "src/main.rs" THEN Readable(content)
                        ELSE Readable(<<"pub fn load() {", "    let x = 1;", "}">>)]
    /\ fpc = "discover"
    /\ rust_files = <<>>
    /\ ftask = <<>>
    /\ fresult = <<>>
    /\ function_flows = EmptyDict
    /\ system_flow = EmptySystemFlow
    /\ BuildOff /\ UnitOff /\ DepOff

SpecSourceTree == InitSourceTree /\ [][FlowNext]_vars

\* analyze_workspace is called again on the same analyzer: the futures of the
\* first call are gone with it, the analyzer's attributes stay. The calls
\* stop once rust_files has MaxDiscovered entries.
MaxDiscovered == 4

AnalyzeWorkspaceAgain ==
    /\ fpc = "done"
    /\ Len(rust_files) < MaxDiscovered
    /\ fpc' = "discover"
    /\ ftask' = <<>>
    /\ fresult' = <<>>
    /\ UNCHANGED <<files, rust_files, function_flows, system_flow,
                   buildVars, unitVars, depVars>>

RepeatedNext == FlowNext \/ AnalyzeWorkspaceAgain

\* a workspace of two crates, each of one source file
InitRepeated ==
    /\ files \in [{"crates/toka-kernel/src/lib.rs", "crates/toka-runtime/src/lib.rs"} ->
                    {Readable(c) : c \in FileContents} \cup {Unreadable}]
    /\ fpc = "discover"
    /\ rust_files = <<>>
    /\ ftask = <<>>
    /\ fresult = <<>>
    /\ function_flows = EmptyDict
    /\ system_flow = EmptySystemFlow
    /\ BuildOff /\ UnitOff /\ DepOff

SpecRepeated == InitRepeated /\ [][RepeatedNext]_vars

InitAsyncPattern == UnitInit /\ FlowOff /\ BuildOff /\ DepOff
UnitNext == CallClassifyAsyncPattern
SpecAsyncPattern == InitAsyncPattern /\ [][UnitNext]_vars

InitDep == DepInit /\ FlowOff /\ BuildOff /\ UnitOff
SpecDep == InitDep /\ [][DepNext]_vars

InitCombined == CombinedInit /\ BuildOff /\ UnitOff
SpecCombined == InitCombined /\ [][CombinedNext]_vars


\* ==================================================================
\* Properties
\* ==================================================================
\* C1: once _build_function_cfg has returned, whatever the function's lines,
\* its node map holds exactly one node of type ENTRY and exactly one of type
\* EXIT, no edge has the ENTRY node as target and no edge has the EXIT node
\* as source.
C1_OneEntryOneExit ==
    b_pc = "done" =>
        LET entries == {id \in DOMAIN b_func.nodes.map :
                            b_func.nodes.map[id].node_type = "entry"}
            exits == {id \in DOMAIN b_func.nodes.map :
                            b_func.nodes.map[id].node_type = "exit"}
        IN  /\ Cardinality(entries) = 1
            /\ Cardinality(exits) = 1
            /\ \A k \in 1..Len(b_func.edges) :
                    /\ b_func.edges[k].target \notin entries
                    /\ b_func.edges[k].source \notin exits

\* A finished graph of a function with a return line followed by another line.
C1_Witness ==
    /\ b_pc = "done"
    /\ Len(b_func.edges) >= 4
    /\ \E k \in 1..(Len(b_func.edges) - 1) :
            b_func.nodes.map[b_func.edges[k].target].node_type = "return_point"

\* C2: at every step of _build_function_cfg and afterwards, the source and
\* the target of every edge of the function are keys of its node map.
C2_EdgeEndpointsExist ==
    \A k \in 1..Len(b_func.edges) :
        /\ DictHas(b_func.nodes, b_func.edges[k].source)
        /\ DictHas(b_func.nodes, b_func.edges[k].target)

\* In the middle of the loop: two edges are there, a line's node has just been
\* added and its edge has not.
C2_Witness ==
    /\ b_pc = "edge"
    /\ Len(b_func.edges) >= 2
    /\ Len(b_func.nodes.keys) = Len(b_func.edges) + 2

\* C3: when analyze_workspace has returned, every function of function_flows
\* has cyclomatic_complexity = 1 + its CONDITION and LOOP nodes (so >= 1),
\* async_complexity = its AWAIT_POINT and SPAWN_POINT nodes,
\* error_handling_complexity = its ERROR_HANDLER nodes, total_nodes = the size
\* of its node map and total_edges = the length of its edge list; with one
\* CONDITION, one AWAIT_POINT and one ERROR_HANDLER line these are 2, 1, 1.
C3_MetricsCountNodes ==
    fpc = "done" =>
        \A n \in DOMAIN function_flows.map :
            LET f == function_flows.map[n]
                m == f.complexity_metrics
                Count(types) == Cardinality({id \in DOMAIN f.nodes.map :
                                                f.nodes.map[id].node_type \in types})
            IN  /\ m.cyclomatic_complexity = 1 + Count({"condition", "loop"})
                /\ m.cyclomatic_complexity >= 1
                /\ m.async_complexity = Count({"await_point", "spawn_point"})
                /\ m.error_handling_complexity = Count({"error_handler"})
                /\ m.total_nodes = Cardinality(DOMAIN f.nodes.map)
                /\ m.total_edges = Len(f.edges)
                /\ (/\ Count({"condition"}) = 1 /\ Count({"loop"}) = 0
                    /\ Count({"await_point"}) = 1 /\ Count({"spawn_point"}) = 0
                    /\ Count({"error_handler"}) = 1)
                   => /\ m.cyclomatic_complexity = 2
                      /\ m.async_complexity = 1
                      /\ m.error_handling_complexity = 1

\* analyze_workspace has returned with a function of one `if` line, one
\* `.await` line and one `?` line among its nodes.
C3_Witness ==
    /\ fpc = "done"
    /\ \E n \in DOMAIN function_flows.map :
        LET f == function_flows.map[n]
            Lines(node_type) == {id \in DOMAIN f.nodes.map :
                                    f.nodes.map[id].node_type = node_type}
        IN  /\ Cardinality(Lines("condition")) = 1
            /\ Cardinality(Lines("await_point")) = 1
            /\ Cardinality(Lines("error_handler")) = 1
            /\ f.complexity_metrics.total_nodes >= 6

\* C4: after DependencyAnalyzer.analyze_workspace, every key of
\* dependency_graph and every member of every adjacency set is a key of
\* crates; a crate's path dependency on a name that is not in crates, and a
\* crate's external dependency, is never in that crate's adjacency set.
C4_GraphWithinCrates ==
    dpc = "done" =>
        /\ \A n \in DOMAIN dependency_graph.map :
                /\ n \in DOMAIN crates.map
                /\ dependency_graph.map[n] \subseteq DOMAIN crates.map
        /\ \A n \in DOMAIN crates.map :
                LET adjacent == IF n \in DOMAIN dependency_graph.map
                                THEN dependency_graph.map[n] ELSE {}
                IN  /\ adjacent \cap crates.map[n].external_dependencies = {}
                    /\ adjacent \cap (crates.map[n].workspace_dependencies
                                            \ DOMAIN crates.map) = {}

\* The analysis is over, the graph has an edge, one crate has a path
\* dependency on a name that is not an analyzed crate, and one has an
\* external dependency on a name that is an analyzed crate.
C4_Witness ==
    /\ dpc = "done"
    /\ dependency_graph.keys # <<>>
    /\ \E n \in DOMAIN crates.map :
            crates.map[n].workspace_dependencies \ DOMAIN crates.map # {}
    /\ \E n \in DOMAIN crates.map :
            crates.map[n].external_dependencies \cap DOMAIN crates.map # {}

\* C5: for every CrateInfo that _analyze_single_crate returns,
\* workspace_dependencies and external_dependencies are disjoint, their union
\* is the set of names declared under [dependencies] (the keys of the
\* dependencies map), an entry with a path is in workspace_dependencies and
\* every other entry in external_dependencies.
C5_DependencySetsPartition ==
    \A i \in DOMAIN dresult :
        dresult[i] # Nothing =>
            LET crate_info == dresult[i]
                declared == manifests.dirs[crate_paths[i]].manifest.dependencies
                names == {declared[k].name : k \in 1..Len(declared)}
            IN  /\ crate_info.workspace_dependencies
                        \cap crate_info.external_dependencies = {}
                /\ crate_info.workspace_dependencies
                        \cup crate_info.external_dependencies = names
                /\ DOMAIN crate_info.dependencies.map = names
                /\ \A k \in 1..Len(declared) :
                        IF declared[k].table /\ declared[k].path
                        THEN declared[k].name \in crate_info.workspace_dependencies
                        ELSE declared[k].name \in crate_info.external_dependencies

\* A worker has returned a CrateInfo with dependencies of both kinds.
C5_Witness ==
    \E i \in DOMAIN dresult :
        /\ dresult[i] # Nothing
        /\ dresult[i].workspace_dependencies # {}
        /\ dresult[i].external_dependencies # {}

\* C6: for every workspace, the final function_flows and the final crates
\* are what merging the tasks' results in the order of their paths gives,
\* whatever order the files were listed in and the tasks completed in.
C6_MapsIndependentOfOrder ==
    /\ fpc = "done" =>
            LET Result(p) == AnalyzeSingleFile(files[p], p)
                in_path_order ==
                    MergeFunctions(
                        MergeFunctions(
                            MergeFunctions(EmptyDict,
                                           Result("crates/toka-kernel/src/lib.rs"), 1),
                            Result("crates/toka-runtime/src/lib.rs"), 1),
                        Result("src/main.rs"), 1)
            IN  function_flows.map = ComputeComplexityMetrics(in_path_order).map
    /\ dpc = "done" =>
            LET Result(m) == AnalyzeSingleCrate(m, manifests.dirs[m], workspace_manifest)
                in_path_order ==
                    MergeCrate(
                        MergeCrate(
                            MergeCrate(EmptyDict, Result("crates/toka-kernel")),
                            Result("crates/toka-runtime")),
                        Result("crates/toka-store-core"))
            IN  crates.map = in_path_order.map

\* C7: a file that cannot be read, and a member directory whose manifest is
\* missing or malformed, adds no entry to function_flows or crates and does
\* not end the run: the only raise is the missing root manifest; in the pool
\* a task can start, or one is running or waiting to be merged, or the pool
\* can be left; when the pool is left every name a task returned is a key of
\* the global map, and the phases after the pool are enabled.
C7_TaskFailuresContained ==
    /\ \A n \in DOMAIN function_flows.map :
            files[function_flows.map[n].file_path].readable
    /\ \A n \in DOMAIN crates.map :
            manifests.dirs[crates.map[n].path].kind = "parsed"
    /\ \A i \in DOMAIN fresult :
            (ftask[i] \in {"done", "merged"} /\ ~files[rust_files[i]].readable)
                => fresult[i] = <<>>
    /\ \A i \in DOMAIN dresult :
            (dtask[i] \in {"done", "merged"} /\ manifests.dirs[crate_paths[i]].kind # "parsed")
                => dresult[i] = Nothing
    /\ fpc \in {"patterns", "metrics", "done"} =>
            \A i \in DOMAIN fresult : \A k \in 1..Len(fresult[i]) :
                fresult[i][k].name \in DOMAIN function_flows.map
    /\ dpc \in {"agents", "graph", "done"} =>
            \A i \in DOMAIN dresult :
                dresult[i] # Nothing => dresult[i].name \in DOMAIN crates.map
    /\ fpc = "pool" =>
            \/ \E i \in DOMAIN ftask :
                    ENABLED StartFileTask(i) \/ ftask[i] \in {"running", "done"}
            \/ ENABLED FilePoolExit
    /\ fpc = "patterns" => ENABLED AnalyzeSystemPatterns
    /\ fpc = "metrics" => ENABLED ComputeMetrics
    /\ dpc = "pool" =>
            \/ \E i \in DOMAIN dtask :
                    ENABLED StartCrateTask(i) \/ dtask[i] \in {"running", "done"}
            \/ ENABLED CratePoolExit
    /\ dpc = "agents" => ENABLED ReadAgentSpecs
    /\ dpc = "graph" => ENABLED BuildGraph
    /\ dpc = "raised" => manifests.root.kind = "absent"

\* Both analyses of a combined run are over: one source file was unreadable
\* and another gave a function, one member's manifest was malformed and
\* another member gave a crate.
C7_Witness ==
    /\ fpc = "done" /\ dpc = "done"
    /\ \E i \in DOMAIN rust_files : ~files[rust_files[i]].readable
    /\ \E i \in DOMAIN fresult : fresult[i] # <<>>
    /\ \E i \in DOMAIN crate_paths : manifests.dirs[crate_paths[i]].kind = "malformed"
    /\ \E i \in DOMAIN dresult : dresult[i] # Nothing
    /\ function_flows.keys # <<>>
    /\ crates.keys # <<>>

\* C8: after analyze_workspace, every function of function_flows whose async
\* flag is set has exactly one entry in async_coordination_patterns, carrying
\* its classification ("sync_in_async" when it has neither an AWAIT_POINT nor
\* a SPAWN_POINT node), and no function without the flag has an entry.
C8_EveryAsyncFunctionClassified ==
    fpc = "done" =>
        \A n \in DOMAIN function_flows.map :
            LET f == function_flows.map[n]
                patterns == system_flow.async_coordination_patterns
                entries == {k \in 1..Len(patterns) : patterns[k].function = n}
                awaits == Cardinality({id \in DOMAIN f.nodes.map :
                                        f.nodes.map[id].node_type = "await_point"})
                spawns == Cardinality({id \in DOMAIN f.nodes.map :
                                        f.nodes.map[id].node_type = "spawn_point"})
                classification ==
                    IF spawns > 0 /\ awaits > 0 THEN "spawn_and_await"
                    ELSE IF spawns > 0 THEN "fire_and_forget"
                    ELSE IF awaits > 3 THEN "sequential_async"
                    ELSE IF awaits >= 1 THEN "simple_async"
                    ELSE "sync_in_async"
            IN  IF f.async_function
                THEN /\ Cardinality(entries) = 1
                     /\ \A k \in entries : patterns[k].pattern_type = classification
                ELSE entries = {}

\* C9: the value _classify_async_pattern returns is decided by the number of
\* spawn points and the number of await points alone, by the table:
\* spawn > 0 and await > 0: spawn_and_await; spawn > 0 and await = 0:
\* fire_and_forget; spawn = 0 and await > 3: sequential_async; spawn = 0 and
\* 1 <= await <= 3: simple_async; spawn = 0 and await = 0: sync_in_async.
C9_PatternTable ==
    u_pc = "returned" =>
        LET spawn == Len(u_spawn)
            await == Len(u_await)
        IN  /\ (spawn > 0 /\ await > 0) => u_out = "spawn_and_await"
            /\ (spawn > 0 /\ await = 0) => u_out = "fire_and_forget"
            /\ (spawn = 0 /\ await > 3) => u_out = "sequential_async"
            /\ (spawn = 0 /\ await \in 1..3) => u_out = "simple_async"
            /\ (spawn = 0 /\ await = 0) => u_out = "sync_in_async"

\* The call has returned for no spawn point and three await points, the
\* largest count that is still simple_async.
C9_Witness ==
    /\ u_pc = "returned"
    /\ Len(u_spawn) = 0
    /\ Len(u_await) = 3
    /\ u_out = "simple_async"

\* C10: whatever order the crate tasks completed in, each dependency export
\* (diagram, interchange object, interactive payload) lists the crates in
\* sorted order of their names, and lists the edges by source in that order.
C10_ExportsSorted ==
    exported # Nothing =>
        LET Sorted(names) == \A k \in 1..(Len(names) - 1) :
                                SortRank[names[k]] < SortRank[names[k + 1]]
            value == exported.value
        IN  CASE exported.format = "json" ->
                    /\ Sorted(value.crates.keys)
                    /\ Sorted(value.dependency_graph.keys)
              [] exported.format = "mermaid" ->
                    LET nodes == SelectSeq(value, LAMBDA line : line.line = "node")
                    IN  Sorted([k \in 1..Len(nodes) |-> nodes[k].label[1]])
              [] exported.format = "interactive" ->
                    /\ Sorted([k \in 1..Len(value.nodes) |-> value.nodes[k].id])
                    /\ \A k \in 1..(Len(value.edges) - 1) :
                            SortRank[value.edges[k].source]
                                <= SortRank[value.edges[k + 1].source]

\* C11: each call of export_function_json for a function of function_flows
\* returns an object whose nodes list has one record per node of the in-memory
\* node map, with the same ids, and whose edges list has one record per edge
\* of the in-memory edge list, with the same source, target and edge_type in
\* the same order; the call leaves function_flows as it was.
C11_ExportPreservesGraph ==
    [][(/\ exported' # exported
        /\ exported'.format = "function_json"
        /\ DictHas(function_flows, exported'.function_name))
       => LET func_flow == function_flows.map[exported'.function_name]
              value == exported'.value
          IN  /\ Len(value.nodes) = Cardinality(DOMAIN func_flow.nodes.map)
              /\ {value.nodes[k].id : k \in 1..Len(value.nodes)}
                    = DOMAIN func_flow.nodes.map
              /\ Len(value.edges) = Len(func_flow.edges)
              /\ \A k \in 1..Len(func_flow.edges) :
                    /\ value.edges[k].source = func_flow.edges[k].source
                    /\ value.edges[k].target = func_flow.edges[k].target
                    /\ value.edges[k].edge_type = func_flow.edges[k].edge_type
              /\ function_flows' = function_flows]_vars

\* A function with an async edge and an error edge among five or more has
\* been exported.
C11_Witness ==
    /\ exported # Nothing
    /\ exported.format = "function_json"
    /\ DictHas(function_flows, exported.function_name)
    /\ Len(exported.value.edges) >= 5
    /\ \E k \in 1..Len(exported.value.edges) : exported.value.edges[k].edge_type = "async"
    /\ \E k \in 1..Len(exported.value.edges) : exported.value.edges[k].edge_type = "error"

\* C12: every CrateInfo a worker returned, and every one in crates, has a
\* category of the fixed set, "general" when no keyword occurs in its name or
\* its description; two of them with the same name and description have the
\* same category, whatever their paths, their dependencies, the other crates
\* of the workspace and the order the tasks were merged in.
C12_CategoryOfOwnNameAndDescription ==
    LET infos == ({dresult[i] : i \in DOMAIN dresult}
                    \cup {crates.map[n] : n \in DOMAIN crates.map}) \ {Nothing}
        keywords == {"store", "storage", "auth", "security", "kernel", "core", "runtime",
                     "agent", "cli", "tools", "llm", "gateway", "raft", "orchestration", "bus"}
        categories == {"storage", "security", "core", "runtime", "tools", "llm", "consensus",
                       "orchestration", "messaging", "general"}
    IN  \A c \in infos :
            /\ c.category \in categories
            /\ (\A kw \in keywords : /\ ~Contains(kw, Lower[c.name])
                                     /\ ~Contains(kw, Lower[c.description]))
                    => c.category = "general"
            /\ \A other \in infos :
                    (other.name = c.name /\ other.description = c.description)
                        => other.category = c.category

\* crates holds a crate with no keyword in its name or description, and two
\* workers have returned crates of one name and description with different
\* dependencies.
C12_Witness ==
    /\ dpc = "done"
    /\ \E n \in DOMAIN crates.map :
            /\ crates.map[n].category = "general"
            /\ crates.map[n].description = ""
    /\ \E i, j \in DOMAIN dresult :
            /\ dresult[i] # Nothing /\ dresult[j] # Nothing
            /\ dresult[i].name = dresult[j].name
            /\ dresult[i].description = dresult[j].description
            /\ dresult[i].dependencies # dresult[j].dependencies

\* C13: a function of function_flows whose block is unterminated (from its
\* signature line to the end of its file no line with a closing brace brings
\* the brace count to zero) has the file's last line as end_line.
C13_UnterminatedEndsAtFileEnd ==
    \A n \in DOMAIN function_flows.map :
        LET func == function_flows.map[n]
            lines == files[func.file_path].content
        IN  (~\E j \in func.start_line..Len(lines) :
                    /\ Contains("}", lines[j])
                    /\ BraceCount(lines, func.start_line, j) = 0)
                => func.end_line = Len(lines)

\* C14: on a workspace without a root manifest the dependency analysis only
\* ever raises from _load_workspace_manifest: no crate task is submitted,
\* crates, agent_specs and dependency_graph stay empty, and no exporter
\* returns anything.
C14_NoRootManifestAborts ==
    manifests # <<>> /\ manifests.root.kind = "absent" =>
        /\ dpc \in {"queued", "load", "raised"}
        /\ dpc = "load" => (ENABLED WorkspaceManifestNotFound /\ ~ENABLED LoadWorkspaceManifest)
        /\ workspace_manifest = Nothing
        /\ crate_paths = <<>> /\ dtask = <<>> /\ dresult = <<>>
        /\ crates = EmptyDict
        /\ agent_specs = <<>>
        /\ dependency_graph = EmptyDict
        /\ exported = Nothing

\* The analysis has raised on a workspace that has a member with a manifest
\* and an agents file.
C14_Witness ==
    /\ dpc = "raised"
    /\ \E m \in DOMAIN manifests.dirs : manifests.dirs[m].kind = "parsed"
    /\ manifests.agents.kind = "parsed"

\* C15: every span _extract_functions returns for a file of the workspace has
\* start_line <= end_line, and in every graph a worker has built the
\* source_line of every node (entry, exit and line nodes) is within
\* [start_line, end_line] of its function.
C15_NodesWithinSpan ==
    /\ \A p \in DOMAIN files :
            files[p].readable =>
                LET spans == ExtractFunctions(files[p].content, p)
                IN  \A k \in 1..Len(spans) : spans[k].start_line <= spans[k].end_line
    /\ \A i \in DOMAIN fresult : \A k \in 1..Len(fresult[i]) :
            LET func == fresult[i][k]
            IN  /\ func.start_line <= func.end_line
                /\ \A id \in DOMAIN func.nodes.map :
                        /\ func.start_line <= func.nodes.map[id].source_line
                        /\ func.nodes.map[id].source_line <= func.end_line

\* A worker has returned a function that does not start on its file's first
\* line and whose closing line has a node, on end_line, and another whose
\* span is a single line.
C15_Witness ==
    /\ \E i \in DOMAIN fresult : \E k \in 1..Len(fresult[i]) :
            LET func == fresult[i][k]
            IN  /\ func.start_line > 1
                /\ func.start_line = func.end_line
    /\ \E i \in DOMAIN fresult : \E k \in 1..Len(fresult[i]) :
            LET func == fresult[i][k]
            IN  /\ Len(func.nodes.keys) >= 5
                /\ \E id \in DOMAIN func.nodes.map :
                        /\ func.nodes.map[id].node_type \notin {"entry", "exit"}
                        /\ func.nodes.map[id].source_line = func.end_line

\* C16: the type of every line node is the type of the first rule, in the
\* order await marker, spawn call, return, leading branch keyword, leading
\* loop keyword, state transition, error-propagation marker, call shape, that
\* the trimmed line matches, and STATEMENT when it matches none; a line with
\* an await marker and a propagation operator is an AWAIT_POINT.
C16_FirstMatchingRule ==
    \A i \in 0..(Len(b_lines) - 1) :
        DictHas(b_func.nodes, LineId(b_func.name, i)) =>
            LET line == Strip[b_lines[i + 1]]
                node_type == b_func.nodes.map[LineId(b_func.name, i)].node_type
                types == <<"await_point", "spawn_point", "return_point", "condition", "loop",
                           "state_transition", "error_handler", "function_call">>
                Matches(rule) ==
                    CASE rule = 1 -> Contains(".await", line)
                      [] rule = 2 -> Contains("tokio::spawn", line)
                                        \/ Contains("std::thread::spawn", line)
                      [] rule = 3 -> Contains("return", line)
                      [] rule = 4 -> StartsWith(line, "if ") \/ StartsWith(line, "match ")
                      [] rule = 5 -> \/ StartsWith(line, "for ") \/ StartsWith(line, "while ")
                                     \/ StartsWith(line, "loop")
                      [] rule = 6 -> /\ Contains("state", Lower[line])
                                     /\ Contains("=", line) \/ Contains("transition", line)
                      [] rule = 7 -> \/ Contains("?", line) \/ Contains(".map_err", line)
                                     \/ Contains("unwrap", line)
                      [] rule = 8 -> Contains("(", line) /\ ~StartsWith(line, "//")
                matching == {rule \in 1..8 : Matches(rule)}
            IN  /\ line # ""
                /\ node_type \in {types[rule] : rule \in 1..8} \cup {"statement"}
                /\ matching = {} => node_type = "statement"
                /\ \A rule \in matching :
                        (\A earlier \in matching : rule <= earlier) => node_type = types[rule]
                /\ (Contains(".await", line) /\ Contains("?", line))
                        => node_type = "await_point"

\* The graph holds the node of a line with an await marker and a propagation
\* operator, and the node of a line that matches no rule.
C16_Witness ==
    /\ b_pc = "done"
    /\ \E i \in 0..(Len(b_lines) - 1) :
            /\ DictHas(b_func.nodes, LineId(b_func.name, i))
            /\ Contains(".await", Strip[b_lines[i + 1]])
            /\ Contains("?", Strip[b_lines[i + 1]])
    /\ \E i \in 0..(Len(b_lines) - 1) :
            /\ DictHas(b_func.nodes, LineId(b_func.name, i))
            /\ b_func.nodes.map[LineId(b_func.name, i)].node_type = "statement"

\* C17: while a task of the file pool is still pending or running,
\* function_flows has no entry, and while a task of the crate pool is still
\* pending or running, crates has no entry.
C17_MergeAfterAllTasks ==
    /\ (\E i \in DOMAIN ftask : ftask[i] \in {"pending", "running"})
            => function_flows = EmptyDict
    /\ (\E i \in DOMAIN dtask : dtask[i] \in {"pending", "running"})
            => crates = EmptyDict

\* C18: the system patterns are computed only when every file task has
\* completed and been merged, the complexity metrics only after the system
\* patterns, and from the system patterns on no worker task is pending or
\* running.
C18_PatternsThenMetricsAfterPool ==
    LET patterns_done == system_flow # EmptySystemFlow
        metrics_done == \E n \in DOMAIN function_flows.map :
                            function_flows.map[n].complexity_metrics # EmptyDict
    IN  /\ fpc \in {"patterns", "metrics", "done"} =>
                /\ \A i \in DOMAIN ftask : ftask[i] = "merged"
                /\ \A i \in DOMAIN fresult : \A k \in 1..Len(fresult[i]) :
                        fresult[i][k].name \in DOMAIN function_flows.map
        /\ patterns_done => fpc \in {"metrics", "done"}
        /\ metrics_done => fpc = "done"
        /\ fpc \in {"metrics", "done"} =>
                system_flow.async_coordination_patterns = AnalyzeAsyncPatterns(
                    [function_flows EXCEPT !.map = [n \in DOMAIN function_flows.map |->
                        [function_flows.map[n] EXCEPT !.complexity_metrics = EmptyDict]]])
        /\ fpc = "done" =>
                \A n \in DOMAIN function_flows.map :
                    function_flows.map[n].complexity_metrics # EmptyDict

\* The system patterns of three merged files have been computed and found an
\* async pattern; the complexity metrics have not been computed yet.
C18_Witness ==
    /\ fpc = "metrics"
    /\ Len(ftask) = 3
    /\ \A i \in DOMAIN ftask : ftask[i] = "merged"
    /\ Len(function_flows.keys) >= 2
    /\ system_flow.async_coordination_patterns # <<>>
    /\ \A n \in DOMAIN function_flows.map :
            function_flows.map[n].complexity_metrics = EmptyDict

\* C19: the edge entering a line's node has edge_type "async" when the line
\* contains `.await`; "error" when it contains `?`, `.map_err` or `unwrap`
\* and no `.await`; "control" otherwise.
C19_EdgeTypeOfLine ==
    \A k \in 1..Len(b_func.edges) : \A i \in 0..(Len(b_lines) - 1) :
        b_func.edges[k].target = LineId(b_func.name, i) =>
            LET line == Strip[b_lines[i + 1]]
            IN  b_func.edges[k].edge_type =
                    IF Contains(".await", line) THEN "async"
                    ELSE IF \/ Contains("?", line) \/ Contains(".map_err", line)
                            \/ Contains("unwrap", line)
                         THEN "error"
                    ELSE "control"

\* C20: an edge labelled "conditional" enters the node of a line that begins
\* with `if ` or `match `.
C20_ConditionalOnlyOnBranch ==
    \A k \in 1..Len(b_func.edges) : \A i \in 0..(Len(b_lines) - 1) :
        (/\ b_func.edges[k].target = LineId(b_func.name, i)
         /\ b_func.edges[k].label = "conditional")
            => \/ StartsWith(Strip[b_lines[i + 1]], "if ")
               \/ StartsWith(Strip[b_lines[i + 1]], "match ")

\* C21: the edges of a built function graph form one chain from ENTRY to
\* EXIT in source-line order: the first edge leaves ENTRY, each edge's target
\* is the next edge's source and is on a later line than its source, every
\* node but EXIT has exactly one outgoing edge and every node but ENTRY
\* exactly one incoming edge, the last edge goes from a line node to EXIT with
\* edge_type "control" and no label, and total_edges = total_nodes - 1.
C21_EdgesFormOneChain ==
    b_pc = "done" =>
        LET edges == b_func.edges
            nodes == b_func.nodes.map
            Out(id) == {k \in 1..Len(edges) : edges[k].source = id}
            In(id) == {k \in 1..Len(edges) : edges[k].target = id}
            last == edges[Len(edges)]
        IN  /\ Len(edges) >= 1
            /\ edges[1].source = EntryId(b_func.name)
            /\ \A k \in 1..(Len(edges) - 1) :
                    /\ edges[k].target = edges[k + 1].source
                    /\ nodes[edges[k].source].source_line <= nodes[edges[k].target].source_line
                    /\ nodes[edges[k].target].source_line
                            < nodes[edges[k + 1].target].source_line
                       \/ k + 1 = Len(edges)
            /\ \A id \in DOMAIN nodes :
                    /\ Cardinality(Out(id)) = IF id = ExitId(b_func.name) THEN 0 ELSE 1
                    /\ Cardinality(In(id)) = IF id = EntryId(b_func.name) THEN 0 ELSE 1
            /\ last.target = ExitId(b_func.name)
            /\ nodes[last.source].node_type \notin {"entry", "exit"}
            /\ last.edge_type = "control"
            /\ last.label = None
            /\ ComplexityMetrics(b_func).total_edges
                    = ComplexityMetrics(b_func).total_nodes - 1

\* A finished graph of four edges or more over lines one of which the loop
\* passed over.
C21_Witness ==
    /\ b_pc = "done"
    /\ Len(b_func.edges) >= 4
    /\ \E i \in 1..Len(b_lines) : SkippedLine(Strip[b_lines[i]])

\* C22: once the component interactions are computed they are exactly the
\* edges component(F) -> component(G), for the functions F with a
\* FUNCTION_CALL node whose label's callee name is a key G of function_flows
\* and component(F) # component(G); the component of a function is the first
\* table entry one of whose path fragments occurs in its file path, "unknown"
\* when none does.
C22_InteractionsAreCrossComponentCalls ==
    fpc \in {"metrics", "done"} =>
        LET flows == function_flows.map
            components == {"unknown", "kernel", "runtime", "orchestration", "storage",
                           "bus", "auth", "llm", "cli"}
            Component(name) == IF ComponentOf(flows[name].file_path) = None THEN "unknown"
                               ELSE ComponentOf(flows[name].file_path)
            Callees(name) ==
                {CallMatch[flows[name].nodes.map[id].label] :
                    id \in {n \in DOMAIN flows[name].nodes.map :
                                flows[name].nodes.map[n].node_type = "function_call"}}
            expected == {pair \in components \X components :
                            /\ pair[1] # pair[2]
                            /\ \E f \in DOMAIN flows : \E g \in Callees(f) \cap DOMAIN flows :
                                    Component(f) = pair[1] /\ Component(g) = pair[2]}
            interactions == system_flow.component_interactions
            actual == {pair \in (DOMAIN interactions.map) \X components :
                            \E t \in 1..Len(interactions.map[pair[1]]) :
                                interactions.map[pair[1]][t] = pair[2]}
        IN  actual = expected

\* C23: a crate whose name contains no keyword of the table and whose
\* description contains "storage" has the category "storage", not "general".
C23_DescriptionIsTested ==
    \A i \in DOMAIN dresult :
        (/\ dresult[i] # Nothing
         /\ \A kw \in {"store", "storage", "auth", "security", "kernel", "core", "runtime",
                       "agent", "cli", "tools", "llm", "gateway", "raft", "orchestration",
                       "bus"} : ~Contains(kw, Lower[dresult[i].name])
         /\ Contains("storage", Lower[dresult[i].description]))
            => dresult[i].category = "storage"

\* C24: the system-level complexity distribution reports the maximum and the
\* mean cyclomatic complexity over all functions of the map, lists as
\* high-complexity exactly the functions whose cyclomatic complexity exceeds
\* the configured AnalysisConfig.max_complexity_threshold, and is empty for an
\* empty function map.
C24_DistributionUsesConfiguredThreshold ==
    (fpc = "done" /\ exported # Nothing /\ exported.format = "system_json") =>
        LET flows == function_flows
            distribution == exported.value.complexity_distribution
            cyclomatic(name) == MetricOr0(flows.map[name], "cyclomatic_complexity")
        IN  IF flows.keys = <<>> THEN distribution = EmptyDict
            ELSE /\ distribution # EmptyDict
                 /\ \E name \in Range(flows.keys) : distribution.max = cyclomatic(name)
                 /\ \A name \in Range(flows.keys) : cyclomatic(name) <= distribution.max
                 /\ distribution.mean.len = Len(flows.keys)
                 /\ distribution.mean.sum = SumSeq(Complexities(flows))
                 /\ Range(distribution.high_complexity_functions) =
                        {name \in Range(flows.keys) :
                            cyclomatic(name) > exported.max_complexity_threshold}

\* C28: in the system-level interactive payload built from
\* component_interactions, the source and the target of every edge are ids of
\* nodes of the payload's node list, also for a component that is only called.
C28_PayloadEdgesJoinNodes ==
    (exported # Nothing /\ exported.format = "system_interactive_html") =>
        LET ids == {exported.value.nodes[k].id : k \in DOMAIN exported.value.nodes}
        IN  \A k \in DOMAIN exported.value.edges :
                /\ exported.value.edges[k].source \in ids
                /\ exported.value.edges[k].target \in ids

\* C25: for each matched signature line, end_line is the first line at or
\* after it at which the brace depth accumulated from the signature line is
\* closed back to zero, and the span holds no following function: a signature
\* line inside the span lies inside the open body.
C25_SpanEndsWithOwnBody ==
    \A i \in DOMAIN ftask : ftask[i] \in {"done", "merged"} =>
        LET lines == files[rust_files[i]].content
        IN  \A k \in DOMAIN fresult[i] :
                LET start_line == fresult[i][k].start_line
                    end_line == fresult[i][k].end_line
                    returns == {j \in start_line..Len(lines) :
                                    /\ CloseCount[lines[j]] > 0
                                    /\ BraceCount(lines, start_line, j) = 0}
                IN  /\ returns # {} =>
                        /\ end_line \in returns
                        /\ \A j \in returns : end_line <= j
                    /\ \A j \in (start_line + 1)..end_line :
                            FnMatch[lines[j]] # "" =>
                                BraceCount(lines, start_line, j - 1) > 0

\* C27: after _discover_rust_files every file of rust_files has the source
\* extension, and under the default patterns none lies under a target/ or a
\* .git/ directory.
C27_NoFileUnderExcludedDirectory ==
    fpc # "discover" =>
        \A k \in DOMAIN rust_files :
            /\ rust_files[k] \in Suffixed[".rs"]
            /\ ~Contains("target/", rust_files[k])
            /\ ~Contains(".git/", rust_files[k])

\* C26: a run of analyze_workspace builds its results from the current
\* workspace alone: when it returns, rust_files lists the discovered files as
\* one call on a new analyzer does, the function map holds the functions of
\* those files and component_interactions is what the function map gives,
\* however many calls went before.
C26_RunsStartFresh ==
    fpc = "done" =>
        /\ \E in_crates \in Enumerations(Discovered("crates/")),
              in_src \in Enumerations(Discovered("src/")),
              in_tests \in Enumerations(Discovered("tests/")) :
                rust_files = in_crates \o in_src \o in_tests
        /\ DOMAIN function_flows.map =
                {f.name : f \in UNION {Range(AnalyzeSingleFile(files[p], p)) :
                                            p \in Range(rust_files)}}
        /\ system_flow.component_interactions =
                AnalyzeComponentInteractions(EmptyDict, function_flows)

\* C29: in a function graph, also while it is built, an edge has edge_type
\* "async" exactly when its target is an AWAIT_POINT node and the edge into a
\* FUNCTION_CALL or STATEMENT node has edge_type "control"; in the built
\* graph every FUNCTION_CALL node is the target of a "control" edge, so the
\* filter of _analyze_component_interactions passes it.
C29_AsyncEdgesEnterAwaitPoints ==
    b_pc # "off" =>
        LET edges == b_func.edges
            nodes == b_func.nodes.map
        IN  /\ \A k \in 1..Len(edges) :
                    /\ edges[k].target \in DOMAIN nodes
                    /\ edges[k].edge_type = "async"
                            <=> nodes[edges[k].target].node_type = "await_point"
                    /\ nodes[edges[k].target].node_type \in {"function_call", "statement"}
                            => edges[k].edge_type = "control"
            /\ b_pc = "done" =>
                    \A id \in DOMAIN nodes :
                        nodes[id].node_type = "function_call" =>
                            \E k \in 1..Len(edges) :
                                edges[k].target = id /\ edges[k].edge_type = "control"

\* C29: a built graph with an await line that also holds a '?', and a call
\* line after the signature.
C29_Witness ==
    /\ b_pc = "done"
    /\ \E k \in 1..Len(b_func.edges) :
            /\ b_func.edges[k].edge_type = "async"
            /\ Contains("?", b_func.nodes.map[b_func.edges[k].target].label)
    /\ \E id \in DOMAIN b_func.nodes.map :
            /\ b_func.nodes.map[id].node_type = "function_call"
            /\ b_func.nodes.map[id].source_line > b_func.start_line

\* C30: after any number of runs of _analyze_component_interactions no
\* component is in its own target list and no target list holds a component
\* twice.
C30_NoSelfNoDuplicateInteraction ==
    LET interactions == system_flow.component_interactions
    IN  \A source \in DOMAIN interactions.map :
            LET targets == interactions.map[source]
            IN  /\ \A t \in 1..Len(targets) : targets[t] # source
                /\ \A t, u \in 1..Len(targets) : targets[t] = targets[u] => t = u

\* C30: the second run has computed the interactions again, over functions
\* that call into another component.
C30_Witness ==
    /\ fpc \in {"metrics", "done"}
    /\ Len(rust_files) > Cardinality(DOMAIN files)
    /\ system_flow.component_interactions.keys # <<>>
====
